---- MODULE Spec2Model ----
(***************************************************************************)
(* ResponseSession (src/lib/responses.ts): the state machine that folds    *)
(* the Responses streaming events into a transcript (messages) and a       *)
(* response snapshot.                                                      *)
(*                                                                         *)
(* Conventions.  JS `undefined` is a record whose type/object field is     *)
(* "undefined", so that every value can be asked for its discriminant.     *)
(* Positions stored in the two identity maps are 0-based as in the source; *)
(* the TLA+ sequence `messages` is 1-based, hence messages[i + 1].         *)
(* Items and responses are values: clone() copies them.  Stream events are *)
(* stored WITHOUT clone (entry.events.push(event), lastError = event), so  *)
(* a stored event is the caller's object; objects are told apart by their  *)
(* sequence_number and CallerMutatesEvent rewrites the object wherever the *)
(* session kept a reference to it.                                         *)
(* Fields uid / epoch of a message and the variables listed under "history"*)
(* are history variables: the code never reads them.                       *)
(***************************************************************************)
EXTENDS Integers, Sequences, FiniteSets, TLC

\* `const name = value; ...rest of the method`: the value is computed once and
\* the rest of the method refers to it by name
Let(value, Body(_)) == Body(value)

\* ---------------------------------------------------------------- bounds
MaxSteps == 4
MaxOutputIndex == 2
MaxSeedInputs == 1
MaxSeedOutputs == 2
MaxStream == 3
MaxCalls == 3

OutputIndices == 0 .. MaxOutputIndex

\* ------------------------------------------------------- JS value helpers
\* sendMessage calls, each with the AbortController it creates
CallIds == 1 .. MaxCalls
NoController == 0

NoId == "undefined"
NoItem == [type |-> "undefined"]
NoResponse == [object |-> "undefined"]
NoEvent == [type |-> "undefined"]
NoAugmentations == [defined |-> FALSE]
EmptyMap == <<>>

Has(m, k) == k \in DOMAIN m
Put(m, k, v) == [x \in (DOMAIN m) \cup {k} |-> IF x = k THEN v ELSE m[x]]
Delete(m, k) == [x \in (DOMAIN m) \ {k} |-> m[x]]
MapValues(m) == {m[k] : k \in DOMAIN m}

SetMin(S) == CHOOSE x \in S : \A y \in S : x <= y

TerminalStatuses == {"completed", "failed", "incomplete", "cancelled"}
LifecycleTypes == {"response.created", "response.in_progress", "response.completed",
                   "response.failed", "response.incomplete"}

\* JSON.parse(JSON.stringify(value)): a fresh value equal to the argument.
\* Values of the model carry no identity, so the copy is the value itself;
\* what is NOT cloned is modelled by reference (see CallerMutatesEvent).
clone(value) == value

\* typeof id === "string" && id.length > 0
HasItemId(item) == /\ "id" \in DOMAIN item
                   /\ item.id # NoId
                   /\ item.id # ""

\* ------------------------------------------------------------------ state
VARIABLES
    messages,                  \* ResponseSessionMessage[]
    idToIndex,                 \* Map<string, number>
    outputIndexToMessageIndex, \* Map<number, number>
    responseSnapshot,          \* Response | undefined
    status,                    \* ResponseStatus | "idle"
    lastError,                 \* ResponseErrorEvent | undefined
    sessionAugmentations,      \* SessionAugmentations | undefined
    ended,
    endEmitted,
    currentResponseId,
    \* history
    emitted,                   \* channels the emitter fired in the last call
    changes,                   \* the snapshots the last call passed to the `change` listeners
    thrown,                    \* the last call ended by throwing
    startedByCreated,          \* the last reset was made by a response.created event
    endCount,                  \* number of `end` notifications so far
    everEnded,                 \* some call left the session ended
    steps,                     \* number of calls made on the session
    lastEvent,                 \* the event of the last handleEvent call
    nextUid,                   \* next creation number for a message
    epoch,                     \* number of resetCurrentResponseOutputs calls
    earlyInputs,               \* uids of inputs added while no output existed
    epochInputs,               \* epoch -> uids of inputs present when its first output was created
    sawTerminal,               \* a completed/failed/incomplete/error event was ingested
    carriedStatus,             \* status carried by the seed or the last created/in_progress payload
    seedInputs,                \* options.inputs of the constructor
    seedResponse,              \* options.response of the constructor
    \* consume(stream)
    source,                    \* the events the async iterable yields, in yield order
    cursor,                    \* number of events the for-await loop has taken
    consumePc,                 \* "idle" | "iterating" | "returned" | "rejected"
    returned,                  \* the value the promise of consume resolved with
    \* useResponses
    streamingRef,              \* streamingRef.current
    abortRef,                  \* abortRef.current: the number of a call's controller, or 0 for null
    aborted,                   \* controllers whose abort() was called
    callPc                     \* sendMessage call -> "idle" | "fetching" | "reading" | "done"

vars == <<messages, idToIndex, outputIndexToMessageIndex, responseSnapshot, status,
          lastError, sessionAugmentations, ended, endEmitted, currentResponseId,
          emitted, changes, thrown, startedByCreated, endCount, everEnded, steps, lastEvent,
          nextUid, epoch, earlyInputs, epochInputs, sawTerminal, carriedStatus, seedInputs,
          seedResponse, source, cursor, consumePc, returned,
          streamingRef, abortRef, aborted, callPc>>

hookVars == <<streamingRef, abortRef, aborted, callPc>>

consumeVars == <<source, cursor, consumePc, returned>>

\* The session as one record, so that the private methods can be written as
\* functions from session to session and composed in the order of the code.
Session == [messages |-> messages, idToIndex |-> idToIndex,
            outputIndexToMessageIndex |-> outputIndexToMessageIndex,
            responseSnapshot |-> responseSnapshot, status |-> status,
            lastError |-> lastError, sessionAugmentations |-> sessionAugmentations,
            ended |-> ended, endEmitted |-> endEmitted,
            currentResponseId |-> currentResponseId,
            emitted |-> <<>>, changes |-> <<>>, thrown |-> FALSE, endCount |-> endCount,
            nextUid |-> nextUid, epoch |-> epoch,
            earlyInputs |-> earlyInputs, epochInputs |-> epochInputs]

\* private fields of a freshly allocated ResponseSession
NewSession == [messages |-> <<>>, idToIndex |-> EmptyMap,
               outputIndexToMessageIndex |-> EmptyMap,
               responseSnapshot |-> NoResponse, status |-> "idle",
               lastError |-> NoEvent, sessionAugmentations |-> NoAugmentations,
               ended |-> FALSE, endEmitted |-> FALSE,
               currentResponseId |-> NoId,
               emitted |-> <<>>, changes |-> <<>>, thrown |-> FALSE, endCount |-> 0,
               nextUid |-> 1, epoch |-> 0,
               earlyInputs |-> {}, epochInputs |-> EmptyMap]

IsOutput(s, index) == /\ index >= 0
                      /\ index < Len(s.messages)
                      /\ s.messages[index + 1].kind = "output"

HasOutputs(s) == \E i \in 1 .. Len(s.messages) : s.messages[i].kind = "output"
InputUids(s) == {s.messages[i].uid : i \in {j \in 1 .. Len(s.messages) : s.messages[j].kind = "input"}}

\* ---------------------------------------------------------------- emitter
emit(s, channel) == [s EXCEPT !.emitted = Append(@, channel)]

getSnapshot(s) ==
    [messages |-> s.messages, status |-> s.status, sessionAugmentations |-> s.sessionAugmentations,
     response |-> s.responseSnapshot, error |-> s.lastError]

\* emitter.emit("change", snapshot)
emitSnapshot(s, snapshot) == [emit(s, "change") EXCEPT !.changes = Append(@, snapshot)]

emitChange_everyTime(s) ==
    LET s1 == emit(emitSnapshot(s, getSnapshot(s)), "status")
    IN IF s1.ended
       THEN [emit(s1, "end") EXCEPT !.endEmitted = TRUE, !.endCount = @ + 1]
       ELSE s1

emitChange(s) ==
    LET s1 == emit(emitSnapshot(s, getSnapshot(s)), "status")
    IN IF s1.ended /\ ~s1.endEmitted
       THEN [emit(s1, "end") EXCEPT !.endEmitted = TRUE, !.endCount = @ + 1]
       ELSE s1

emitError(s) == emit(s, "error")

\* ------------------------------------------------------------ identity maps
registerItemId(s, item, index) ==
    IF item.type = "undefined" THEN s
    ELSE IF HasItemId(item) THEN [s EXCEPT !.idToIndex = Put(@, item.id, index)]
    ELSE s

RECURSIVE ForgetOutputIds(_, _, _)
ForgetOutputIds(ids, msgs, indices) ==
    IF indices = {} THEN ids
    ELSE LET index == CHOOSE i \in indices : TRUE
             entry == IF index >= 0 /\ index < Len(msgs) THEN msgs[index + 1] ELSE [kind |-> "undefined"]
             ids1 == IF entry.kind = "output" /\ "id" \in DOMAIN entry.item /\ entry.item.id # NoId
                     THEN Delete(ids, entry.item.id)
                     ELSE ids
         IN ForgetOutputIds(ids1, msgs, indices \ {index})

resetCurrentResponseOutputs(s) ==
    LET indices == MapValues(s.outputIndexToMessageIndex)
    IN [s EXCEPT !.outputIndexToMessageIndex = EmptyMap,
                 !.idToIndex = ForgetOutputIds(@, s.messages, indices),
                 !.epoch = @ + 1]

\* first loop: skip the leading inputs; second loop: stop at the first output
\* whose outputIndex is greater
findInsertionPoint_append(msgs, outputIndex) == Len(msgs)

findInsertionPoint_stopAtInput(msgs, outputIndex) ==
    LET stops == {i \in 0 .. Len(msgs) - 1 :
                    \/ msgs[i + 1].kind = "input"
                    \/ msgs[i + 1].outputIndex > outputIndex}
    IN IF stops = {} THEN Len(msgs) ELSE SetMin(stops)

findInsertionPoint(msgs, outputIndex) ==
    LET nonInputs == {i \in 0 .. Len(msgs) - 1 : msgs[i + 1].kind # "input"}
        start == IF nonInputs = {} THEN Len(msgs) ELSE SetMin(nonInputs)
        greater == {i \in start .. Len(msgs) - 1 :
                      /\ msgs[i + 1].kind = "output"
                      /\ msgs[i + 1].outputIndex > outputIndex}
    IN IF greater = {} THEN Len(msgs) ELSE SetMin(greater)

\* messages.splice(insertionIndex, 1, entry): the entry replaces the message at
\* the insertion point
splice_replace(msgs, insertionIndex, entry) ==
    SubSeq(msgs, 1, insertionIndex) \o <<entry>> \o SubSeq(msgs, insertionIndex + 2, Len(msgs))

\* messages.splice(insertionIndex, 0, entry)
splice(msgs, insertionIndex, entry) ==
    SubSeq(msgs, 1, insertionIndex) \o <<entry>> \o SubSeq(msgs, insertionIndex + 1, Len(msgs))

RECURSIVE ShiftLoop(_, _)
ShiftLoop(s, i) ==
    IF i >= Len(s.messages) THEN s
    ELSE LET message == s.messages[i + 1]
             s1 == IF message.kind = "output"
                   THEN [s EXCEPT !.outputIndexToMessageIndex = Put(@, message.outputIndex, i)]
                   ELSE s
             s2 == IF HasItemId(message.item)
                   THEN [s1 EXCEPT !.idToIndex = Put(@, message.item.id, i)]
                   ELSE s1
         IN ShiftLoop(s2, i + 1)

\* the messages behind the insertion point keep their old positions in the maps
updateMappingsAfterInsertion_noShift(s, insertionIndex, newOutputIndex) ==
    [s EXCEPT !.outputIndexToMessageIndex = Put(@, newOutputIndex, insertionIndex)]

updateMappingsAfterInsertion(s, insertionIndex, newOutputIndex) ==
    ShiftLoop([s EXCEPT !.outputIndexToMessageIndex = Put(@, newOutputIndex, insertionIndex)],
              insertionIndex + 1)

\* history: a new Output Message of the current epoch; the first one of an
\* epoch records the inputs that exist at that moment
NewOutputEntry(s, item, outputIndex) ==
    [item |-> item, epoch |-> s.epoch, kind |-> "output", uid |-> s.nextUid,
     outputIndex |-> outputIndex, events |-> <<>>, augmentations |-> NoAugmentations]

NoteNewOutput(s) ==
    [s EXCEPT !.nextUid = @ + 1,
              !.epochInputs = IF Has(@, s.epoch) THEN @ ELSE Put(@, s.epoch, InputUids(s))]

ensureOutputEntry_noRegister(s, item, outputIndex) ==
    LET existingIndex == IF Has(s.outputIndexToMessageIndex, outputIndex)
                         THEN s.outputIndexToMessageIndex[outputIndex] ELSE -1
    IN IF IsOutput(s, existingIndex)
       THEN [s |-> [s EXCEPT !.messages[existingIndex + 1].item = clone(item),
                             !.messages[existingIndex + 1].outputIndex = outputIndex],
             index |-> existingIndex]
       ELSE LET entry == NewOutputEntry(s, clone(item), outputIndex)
                insertionIndex == findInsertionPoint(s.messages, outputIndex)
                s1 == NoteNewOutput(s)
                s2 == [s1 EXCEPT !.messages = splice(@, insertionIndex, entry)]
                s3 == updateMappingsAfterInsertion(s2, insertionIndex, outputIndex)
            IN [s |-> registerItemId(s3, item, insertionIndex), index |-> insertionIndex]

\* both return [s |-> session, index |-> position of the entry, -1 for undefined]
ensureOutputEntry(s, item, outputIndex) ==
    LET existingIndex == IF Has(s.outputIndexToMessageIndex, outputIndex)
                         THEN s.outputIndexToMessageIndex[outputIndex] ELSE -1
    IN IF IsOutput(s, existingIndex)
       THEN [s |-> registerItemId([s EXCEPT !.messages[existingIndex + 1].item = clone(item),
                                            !.messages[existingIndex + 1].outputIndex = outputIndex],
                                  item, existingIndex),
             index |-> existingIndex]
       ELSE LET entry == NewOutputEntry(s, clone(item), outputIndex)
                insertionIndex == findInsertionPoint(s.messages, outputIndex)
                s1 == NoteNewOutput(s)
                s2 == [s1 EXCEPT !.messages = splice(@, insertionIndex, entry)]
                s3 == updateMappingsAfterInsertion(s2, insertionIndex, outputIndex)
            IN [s |-> registerItemId(s3, item, insertionIndex), index |-> insertionIndex]

ensureOutputEntryFromSnapshot(s, outputIndex) ==
    LET snapshotItem == IF s.responseSnapshot.object = "undefined" THEN NoItem
                        ELSE s.responseSnapshot.output[outputIndex]
        existingIndex == IF Has(s.outputIndexToMessageIndex, outputIndex)
                         THEN s.outputIndexToMessageIndex[outputIndex] ELSE -1
    IN IF snapshotItem.type = "undefined" THEN [s |-> s, index |-> -1]
       ELSE IF IsOutput(s, existingIndex)
       THEN [s |-> registerItemId([s EXCEPT !.messages[existingIndex + 1].item = snapshotItem],
                                  snapshotItem, existingIndex),
             index |-> existingIndex]
       ELSE LET entry == NewOutputEntry(s, snapshotItem, outputIndex)
                insertionIndex == findInsertionPoint(s.messages, outputIndex)
                s1 == NoteNewOutput(s)
                s2 == [s1 EXCEPT !.messages = splice(@, insertionIndex, entry)]
                s3 == updateMappingsAfterInsertion(s2, insertionIndex, outputIndex)
            IN [s |-> registerItemId(s3, snapshotItem, insertionIndex), index |-> insertionIndex]

\* responseSnapshot.output.forEach((_, index) => ensureOutputEntryFromSnapshot(index))
RECURSIVE SyncLoop(_, _)
SyncLoop(s, index) ==
    IF index > MaxOutputIndex THEN s
    ELSE SyncLoop(ensureOutputEntryFromSnapshot(s, index).s, index + 1)

syncOutputsFromSnapshot(s) ==
    IF s.responseSnapshot.object = "undefined" THEN s ELSE SyncLoop(s, 0)

\* ------------------------------------------------------------ public: inputs
\* messages.unshift(entry): the input goes to the front of the transcript
addInput_unshift(s, input) ==
    LET entry == [item |-> clone(input), kind |-> "input", uid |-> s.nextUid]
        s1 == [s EXCEPT !.messages = <<entry>> \o @,
                        !.nextUid = @ + 1,
                        !.earlyInputs = IF HasOutputs(s) THEN @ ELSE @ \cup {s.nextUid}]
    IN emitChange(registerItemId(s1, input, 0))

addInput(s, input) ==
    LET entry == [item |-> clone(input), kind |-> "input", uid |-> s.nextUid]
        index == Len(s.messages)
        s1 == [s EXCEPT !.messages = Append(@, entry),
                        !.nextUid = @ + 1,
                        !.earlyInputs = IF HasOutputs(s) THEN @ ELSE @ \cup {s.nextUid}]
    IN emitChange(registerItemId(s1, input, index))

addApprovalResponse(s, approvalRequestId, approve) ==
    addInput(s, [type |-> "mcp_approval_response", approve |-> approve,
                 approval_request_id |-> approvalRequestId])

RECURSIVE AddInputs(_, _)
AddInputs(s, inputs) ==
    IF inputs = <<>> THEN s ELSE AddInputs(addInput(s, Head(inputs)), Tail(inputs))

\* new ResponseSession({inputs, response}); inputs = <<>> and response =
\* NoResponse stand for the options left out
constructor_syncFirst(inputs, response) ==
    LET s1 == IF response.object = "undefined" THEN NewSession
              ELSE syncOutputsFromSnapshot([NewSession EXCEPT !.responseSnapshot = clone(response),
                                                             !.status = response.status])
    IN AddInputs(s1, inputs)

constructor(inputs, response) ==
    LET s1 == AddInputs(NewSession, inputs)
    IN IF response.object = "undefined" THEN s1
       ELSE syncOutputsFromSnapshot([s1 EXCEPT !.responseSnapshot = clone(response),
                                               !.status = response.status])

\* ------------------------------------------------------- placeholders, lookup
\* makeId() is not modelled: every event of the model carries its item_id
createPlaceholderOutput(type, itemId) ==
    CASE type = "message" ->
            [type |-> "message", id |-> itemId, status |-> "in_progress", role |-> "assistant",
             content |-> <<>>]
      [] type = "reasoning" ->
            [type |-> "reasoning", id |-> itemId, status |-> "in_progress", summary |-> <<>>]
      [] type = "function_call" ->
            [type |-> "function_call", id |-> itemId, status |-> "in_progress", call_id |-> itemId,
             name |-> "", arguments |-> ""]
      [] type = "custom_tool_call" ->
            [type |-> "custom_tool_call", id |-> itemId, input |-> "", call_id |-> itemId,
             name |-> ""]
      [] type = "mcp_call" ->
            [type |-> "mcp_call", id |-> itemId, name |-> "", arguments |-> "",
             server_label |-> ""]
      [] type = "mcp_list_tools" ->
            [type |-> "mcp_list_tools", id |-> itemId, server_label |-> "", tools |-> <<>>]
      [] type = "code_interpreter_call" ->
            [type |-> "code_interpreter_call", id |-> itemId, status |-> "in_progress", code |-> "",
             outputs |-> <<>>, container_id |-> ""]
      [] type = "image_generation_call" ->
            [type |-> "image_generation_call", id |-> itemId, status |-> "in_progress",
             result |-> "null"]
      [] OTHER -> [type |-> type]

setSnapshotOutput(s, outputIndex, item) ==
    IF s.responseSnapshot.object = "undefined" THEN s
    ELSE [s EXCEPT !.responseSnapshot.output[outputIndex] = clone(item)]

\* Returns [s, item, attached].  `item` is the object the caller goes on to
\* write to: when the placeholder branch is taken the snapshot receives a
\* clone of the placeholder and the caller is handed the placeholder itself,
\* which is not the stored object (attached = FALSE).
ensureSnapshotOutputItem(s, outputIndex, type, itemId) ==
    IF s.responseSnapshot.object = "undefined"
    THEN [item |-> NoItem, s |-> s, attached |-> FALSE]
    ELSE LET item == s.responseSnapshot.output[outputIndex]
         IN IF item.type = "undefined" \/ item.type # type
            THEN LET placeholder == createPlaceholderOutput(type, itemId)
                 IN [item |-> placeholder,
                     s |-> registerItemId(setSnapshotOutput(s, outputIndex, placeholder),
                                          placeholder, outputIndex),
                     attached |-> FALSE]
            ELSE IF itemId # NoId /\ "id" \in DOMAIN item /\ item.id # NoId /\ item.id # itemId
            THEN LET renamed == [item EXCEPT !.id = itemId]
                 IN [item |-> renamed,
                     s |-> registerItemId([s EXCEPT !.responseSnapshot.output[outputIndex] = renamed],
                                          renamed, outputIndex),
                     attached |-> TRUE]
            ELSE [item |-> item, s |-> registerItemId(s, item, outputIndex), attached |-> TRUE]

\* returns [s, index]
ensureOutputItemPresence(s, outputIndex, type, itemId) ==
    Let(ensureSnapshotOutputItem(s, outputIndex, type, itemId), LAMBDA r :
        IF r.item.type = "undefined" THEN [s |-> r.s, index |-> -1]
        ELSE ensureOutputEntry(r.s, r.item, outputIndex))

\* position of the entry, -1 for undefined
findOutputEntry(s, itemId, outputIndex) ==
    LET byId == IF itemId # NoId /\ Has(s.idToIndex, itemId) THEN s.idToIndex[itemId] ELSE -1
        byIndex == IF Has(s.outputIndexToMessageIndex, outputIndex)
                   THEN s.outputIndexToMessageIndex[outputIndex] ELSE -1
    IN IF IsOutput(s, byId) THEN byId
       ELSE IF IsOutput(s, byIndex) THEN byIndex
       ELSE -1

ensureAugmentations(augmentations) ==
    IF augmentations.defined THEN augmentations
    ELSE [defined |-> TRUE, partialImages |-> <<>>, customToolInput |-> NoId,
          reasoningText |-> <<>>, reasoningSummaryText |-> <<>>]

\* the list is started again by every event
pushEvent_restart(s, index, event) ==
    [s EXCEPT !.messages[index + 1].events = <<event>>]

pushEvent(s, index, event) ==
    [s EXCEPT !.messages[index + 1].events = Append(@, event)]

\* returns [s, index]
recordOutputEvent(s, outputIndex, itemId, event) ==
    LET byId == IF itemId # NoId /\ Has(s.idToIndex, itemId) THEN s.idToIndex[itemId] ELSE -1
    IN IF IsOutput(s, byId) THEN [s |-> pushEvent(s, byId, event), index |-> byId]
       ELSE Let(ensureOutputEntryFromSnapshot(s, outputIndex), LAMBDA r :
            IF r.index = -1 THEN r
            ELSE Let(pushEvent(r.s, r.index, event), LAMBDA s1 :
                 LET at == IF Has(s1.outputIndexToMessageIndex, outputIndex)
                           THEN s1.outputIndexToMessageIndex[outputIndex] ELSE r.index
                 IN [s |-> IF itemId # NoId
                           THEN registerItemId(s1, s1.messages[r.index + 1].item, at)
                           ELSE s1,
                     index |-> r.index]))

\* ---------------------------------------------------------- message content
EmptyText == [type |-> "output_text", text |-> "", annotations |-> <<>>]
EmptyRefusal == [type |-> "refusal", refusal |-> ""]

RECURSIVE PadContent(_, _, _)
PadContent(content, index, filler) ==
    IF Len(content) <= index THEN PadContent(Append(content, filler), index, filler) ELSE content

\* ensureSnapshotText: the message with content[contentIndex] made an output_text part
ensureSnapshotText(message, contentIndex) ==
    LET padded == PadContent(message.content, contentIndex, EmptyText)
    IN IF padded[contentIndex + 1].type = "output_text"
       THEN [message EXCEPT !.content = padded]
       ELSE [message EXCEPT !.content = [padded EXCEPT ![contentIndex + 1] = EmptyText]]

ensureMessageContentSlot(message, index, type) ==
    LET padded == PadContent(message.content, index, EmptyText)
    IN IF padded[index + 1].type # type
       THEN [message EXCEPT !.content = [padded EXCEPT ![index + 1] =
                                            IF type = "output_text" THEN EmptyText ELSE EmptyRefusal]]
       ELSE [message EXCEPT !.content = padded]

ensureMessageText(message, index) == ensureMessageContentSlot(message, index, "output_text")

\* ------------------------------------------------------------ event tables
\* item kind and accumulated field of the four tool-call delta/done families
ToolEventTypes == {"response.function_call_arguments.delta", "response.function_call_arguments.done",
                   "response.custom_tool_call_input.delta", "response.custom_tool_call_input.done",
                   "response.mcp_call_arguments.delta", "response.mcp_call_arguments.done",
                   "response.code_interpreter_call_code.delta", "response.code_interpreter_call_code.done"}

ToolKind(type) ==
    CASE type \in {"response.function_call_arguments.delta", "response.function_call_arguments.done"}
            -> "function_call"
      [] type \in {"response.custom_tool_call_input.delta", "response.custom_tool_call_input.done"}
            -> "custom_tool_call"
      [] type \in {"response.mcp_call_arguments.delta", "response.mcp_call_arguments.done"}
            -> "mcp_call"
      [] OTHER -> "code_interpreter_call"

ToolField(kind) ==
    CASE kind = "function_call" -> "arguments"
      [] kind = "custom_tool_call" -> "input"
      [] kind = "mcp_call" -> "arguments"
      [] OTHER -> "code"

IsDelta(type) ==
    type \in {"response.output_text.delta", "response.function_call_arguments.delta",
              "response.custom_tool_call_input.delta", "response.mcp_call_arguments.delta",
              "response.code_interpreter_call_code.delta"}

\* the final value a done event of a tool-call family carries
DoneValue(event) == event[ToolField(ToolKind(event.type))]

\* ------------------------------------------------------------ mutateSnapshot
\* event.response; undefined when the event has no such field
ResponseOf(event) == IF "response" \in DOMAIN event THEN event.response ELSE NoResponse

\* `event.response?.id` and clone(event.response) accept an event without a
\* response; `event.response.status` then throws a TypeError, after the reset
\* and after the snapshot was replaced
mutateSnapshotLifecycle_endOnInProgress(s, event) ==
    LET response == ResponseOf(event)
        nextResponseId == IF response.object = "undefined" THEN NoId ELSE response.id
        s1 == IF \/ event.type = "response.created"
                 \/ (nextResponseId # NoId /\ nextResponseId # s.currentResponseId)
              THEN resetCurrentResponseOutputs(s)
              ELSE s
        s2 == [s1 EXCEPT !.currentResponseId = IF nextResponseId # NoId THEN nextResponseId ELSE @,
                         !.responseSnapshot = clone(response)]
    IN IF response.object = "undefined"
       THEN [s2 EXCEPT !.thrown = TRUE]
       ELSE syncOutputsFromSnapshot([s2 EXCEPT !.status = response.status,
                                               !.ended = (event.type # "response.created")])

mutateSnapshotLifecycle_resetAlways(s, event) ==
    LET response == ResponseOf(event)
        nextResponseId == IF response.object = "undefined" THEN NoId ELSE response.id
        s1 == resetCurrentResponseOutputs(s)
        s2 == [s1 EXCEPT !.currentResponseId = IF nextResponseId # NoId THEN nextResponseId ELSE @,
                         !.responseSnapshot = clone(response)]
    IN IF response.object = "undefined"
       THEN [s2 EXCEPT !.thrown = TRUE]
       ELSE syncOutputsFromSnapshot([s2 EXCEPT !.status = response.status,
                                               !.ended = (event.type # "response.created" /\ event.type # "response.in_progress")])

mutateSnapshotLifecycle_keepStatus(s, event) ==
    LET response == ResponseOf(event)
        nextResponseId == IF response.object = "undefined" THEN NoId ELSE response.id
        s1 == IF \/ event.type = "response.created"
                 \/ (nextResponseId # NoId /\ nextResponseId # s.currentResponseId)
              THEN resetCurrentResponseOutputs(s)
              ELSE s
        s2 == [s1 EXCEPT !.currentResponseId = IF nextResponseId # NoId THEN nextResponseId ELSE @,
                         !.responseSnapshot = clone(response)]
    IN IF response.object = "undefined"
       THEN [s2 EXCEPT !.thrown = TRUE]
       ELSE syncOutputsFromSnapshot([s2 EXCEPT !.ended = (event.type # "response.created" /\ event.type # "response.in_progress")])

mutateSnapshotLifecycle(s, event) ==
    LET response == ResponseOf(event)
        nextResponseId == IF response.object = "undefined" THEN NoId ELSE response.id
        s1 == IF \/ event.type = "response.created"
                 \/ (nextResponseId # NoId /\ nextResponseId # s.currentResponseId)
              THEN resetCurrentResponseOutputs(s)
              ELSE s
        s2 == [s1 EXCEPT !.currentResponseId = IF nextResponseId # NoId THEN nextResponseId ELSE @,
                         !.responseSnapshot = clone(response)]
    IN IF response.object = "undefined"
       THEN [s2 EXCEPT !.thrown = TRUE]
       ELSE syncOutputsFromSnapshot([s2 EXCEPT !.status = response.status,
                                               !.ended = (event.type # "response.created" /\ event.type # "response.in_progress")])

\* the write `content.text += delta` / `content.text = text` lands in the
\* snapshot only when `message` is the stored object
mutateSnapshotText(s, event) ==
    Let(ensureSnapshotOutputItem(s, event.output_index, "message", event.item_id), LAMBDA r :
        IF r.item.type = "undefined" THEN r.s
        ELSE Let(ensureOutputItemPresence(r.s, event.output_index, "message", event.item_id).s, LAMBDA s1 :
             LET message == ensureSnapshotText(s1.responseSnapshot.output[event.output_index],
                                               event.content_index)
                 written == IF event.type = "response.output_text.delta"
                            THEN [message EXCEPT !.content[event.content_index + 1].text = @ \o event.delta]
                            ELSE [message EXCEPT !.content[event.content_index + 1].text = event.text]
             IN IF r.attached
                THEN [s1 EXCEPT !.responseSnapshot.output[event.output_index] = written]
                ELSE s1))

mutateSnapshotTool(s, event) ==
    LET kind == ToolKind(event.type)
        field == ToolField(kind)
    IN Let(ensureSnapshotOutputItem(s, event.output_index, kind, event.item_id), LAMBDA r :
       IF r.item.type # kind THEN r.s
       ELSE Let(ensureOutputItemPresence(r.s, event.output_index, kind, event.item_id).s, LAMBDA s1 :
            LET stored == s1.responseSnapshot.output[event.output_index]
                written == IF IsDelta(event.type)
                           THEN [stored EXCEPT ![field] = @ \o event.delta]
                           ELSE [stored EXCEPT ![field] = DoneValue(event)]
            IN IF r.attached
               THEN [s1 EXCEPT !.responseSnapshot.output[event.output_index] = written]
               ELSE s1))

\* ------------------------------------------------------------ reasoning
ReasoningPartTypes == {"response.reasoning_summary_part.added", "response.reasoning_summary_part.done"}
ReasoningDeltaTypes == {"response.reasoning_summary_text.delta", "response.reasoning_text.delta"}
ReasoningDoneTypes == {"response.reasoning_summary_text.done", "response.reasoning_text.done"}

\* the index into item.summary an event addresses: event.summary_index for the
\* summary events, event.content_index for the raw reasoning text events
ReasoningIndex(event) ==
    IF event.type \in {"response.reasoning_text.delta", "response.reasoning_text.done"}
    THEN event.content_index
    ELSE event.summary_index

\* reasoning.summary[index] = clone(part); an assignment past the end of the
\* array leaves holes, which read as undefined
setSummaryPart(item, index, part) ==
    LET padded == PadContent(item.summary, index, NoItem)
    IN [item EXCEPT !.summary = [padded EXCEPT ![index + 1] = clone(part)]]

\* const summary = item.summary[index]; if (summary && "text" in summary) ...
HasSummaryText(item, index) ==
    /\ index < Len(item.summary)
    /\ "text" \in DOMAIN item.summary[index + 1]

writeSummaryText(item, event) ==
    LET index == ReasoningIndex(event)
    IN IF ~HasSummaryText(item, index) THEN item
       ELSE IF event.type \in ReasoningDeltaTypes
       THEN [item EXCEPT !.summary[index + 1].text = @ \o event.delta]
       ELSE [item EXCEPT !.summary[index + 1].text = event.text]

mutateSnapshotReasoning(s, event) ==
    Let(ensureSnapshotOutputItem(s, event.output_index, "reasoning", event.item_id), LAMBDA r :
        IF r.item.type # "reasoning" THEN r.s
        ELSE Let(ensureOutputItemPresence(r.s, event.output_index, "reasoning", event.item_id).s, LAMBDA s1 :
             LET stored == s1.responseSnapshot.output[event.output_index]
                 written == IF event.type \in ReasoningPartTypes
                            THEN setSummaryPart(stored, event.summary_index, event.part)
                            ELSE writeSummaryText(stored, event)
             IN IF r.attached
                THEN [s1 EXCEPT !.responseSnapshot.output[event.output_index] = written]
                ELSE s1))

mutateSnapshot(s, event) ==
    CASE event.type \in LifecycleTypes -> mutateSnapshotLifecycle(s, event)
      [] event.type \in {"response.output_item.added", "response.output_item.done"} ->
            setSnapshotOutput(s, event.output_index, event.item)
      [] event.type \in {"response.output_text.delta", "response.output_text.done"} ->
            mutateSnapshotText(s, event)
      [] event.type \in ToolEventTypes -> mutateSnapshotTool(s, event)
      [] event.type \in ReasoningPartTypes \cup ReasoningDeltaTypes \cup ReasoningDoneTypes ->
            mutateSnapshotReasoning(s, event)
      [] OTHER -> s

\* ----------------------------------------------------------- applyToMessages
\* let entry = findOutputEntry(...); if (!entry) entry = ensureOutputItemPresence(...)
findOrEnsure(s, itemId, outputIndex, type, ensureId) ==
    LET found == findOutputEntry(s, itemId, outputIndex)
    IN IF found # -1 THEN [s |-> s, index |-> found]
       ELSE ensureOutputItemPresence(s, outputIndex, type, ensureId)

applyOutputItem(s, event) ==
    Let(ensureOutputEntry(s, event.item, event.output_index), LAMBDA r :
        pushEvent(IF event.type = "response.output_item.done"
                  THEN [r.s EXCEPT !.messages[r.index + 1].item = clone(event.item)]
                  ELSE r.s,
                  r.index, event))

\* the transcript item is the snapshot's own object, so the delta written by
\* mutateSnapshot is in it already and is appended a second time
applyText_twice(s, event) ==
    Let(findOrEnsure(s, event.item_id, event.output_index, "message", event.item_id), LAMBDA r :
        IF r.index # -1 /\ r.s.messages[r.index + 1].item.type = "message"
        THEN LET message == ensureMessageText(r.s.messages[r.index + 1].item, event.content_index)
                 written == IF event.type = "response.output_text.delta"
                            THEN [message EXCEPT !.content[event.content_index + 1].text =
                                                     @ \o event.delta \o event.delta]
                            ELSE [message EXCEPT !.content[event.content_index + 1].text = event.text]
             IN pushEvent([r.s EXCEPT !.messages[r.index + 1].item = written], r.index, event)
        ELSE r.s)

applyText(s, event) ==
    Let(findOrEnsure(s, event.item_id, event.output_index, "message", event.item_id), LAMBDA r :
        IF r.index # -1 /\ r.s.messages[r.index + 1].item.type = "message"
        THEN LET message == ensureMessageText(r.s.messages[r.index + 1].item, event.content_index)
                 written == IF event.type = "response.output_text.delta"
                            THEN [message EXCEPT !.content[event.content_index + 1].text = @ \o event.delta]
                            ELSE [message EXCEPT !.content[event.content_index + 1].text = event.text]
             IN pushEvent([r.s EXCEPT !.messages[r.index + 1].item = written], r.index, event)
        ELSE r.s)

\* function_call, mcp_call (entry.item.arguments) and code_interpreter_call
\* (entry.item.code, looked up by output index only)
applyToolField(s, event) ==
    LET kind == ToolKind(event.type)
        field == ToolField(kind)
        lookupId == IF kind = "code_interpreter_call" THEN NoId ELSE event.item_id
    IN Let(findOrEnsure(s, lookupId, event.output_index, kind, event.item_id), LAMBDA r :
       IF r.index # -1 /\ r.s.messages[r.index + 1].item.type = kind
       THEN LET item == r.s.messages[r.index + 1].item
                written == IF IsDelta(event.type)
                           THEN [item EXCEPT ![field] = @ \o event.delta]
                           ELSE [item EXCEPT ![field] = DoneValue(event)]
            IN pushEvent([r.s EXCEPT !.messages[r.index + 1].item = written], r.index, event)
       ELSE r.s)

\* custom_tool_call: the transcript keeps the input in augmentations.customToolInput
applyCustomToolInput(s, event) ==
    Let(findOrEnsure(s, event.item_id, event.output_index, "custom_tool_call", event.item_id), LAMBDA r :
        IF r.index # -1 /\ r.s.messages[r.index + 1].item.type = "custom_tool_call"
        THEN LET augmentations == ensureAugmentations(r.s.messages[r.index + 1].augmentations)
                 before == IF augmentations.customToolInput = NoId THEN "" ELSE augmentations.customToolInput
                 written == IF IsDelta(event.type)
                            THEN [augmentations EXCEPT !.customToolInput = before \o event.delta]
                            ELSE [augmentations EXCEPT !.customToolInput = event.input]
             IN pushEvent([r.s EXCEPT !.messages[r.index + 1].augmentations = written], r.index, event)
        ELSE r.s)

applyPartialImage(s, event) ==
    Let(recordOutputEvent(s, event.output_index, event.item_id, event), LAMBDA r :
        IF r.index # -1
        THEN LET aug == ensureAugmentations(r.s.messages[r.index + 1].augmentations)
             IN [r.s EXCEPT !.messages[r.index + 1].augmentations =
                               [aug EXCEPT !.partialImages = Append(@, event)]]
        ELSE r.s)

\* reasoning_summary_part.added / .done
applyReasoningPart(s, event) ==
    Let(findOrEnsure(s, event.item_id, event.output_index, "reasoning", event.item_id), LAMBDA r :
        IF r.index # -1 /\ r.s.messages[r.index + 1].item.type = "reasoning"
        THEN pushEvent([r.s EXCEPT !.messages[r.index + 1].item =
                                       setSummaryPart(@, event.summary_index, event.part)],
                       r.index, event)
        ELSE r.s)

\* reasoning_summary_text.done / reasoning_text.done
applyReasoningDone(s, event) ==
    Let(findOrEnsure(s, event.item_id, event.output_index, "reasoning", event.item_id), LAMBDA r :
        IF r.index # -1 /\ r.s.messages[r.index + 1].item.type = "reasoning"
        THEN pushEvent([r.s EXCEPT !.messages[r.index + 1].item = writeSummaryText(@, event)],
                       r.index, event)
        ELSE r.s)

\* reasoning_text.delta / reasoning_summary_text.delta: the entry is looked up,
\* never created; the delta is appended to the summary part of that index and
\* the event recorded in the augmentation of its family
applyReasoningDelta(s, event) ==
    LET index == findOutputEntry(s, event.item_id, event.output_index)
    IN IF index # -1 /\ s.messages[index + 1].item.type = "reasoning"
       THEN LET aug == ensureAugmentations(s.messages[index + 1].augmentations)
                recorded == IF event.type = "response.reasoning_text.delta"
                            THEN [aug EXCEPT !.reasoningText = Append(@, event)]
                            ELSE [aug EXCEPT !.reasoningSummaryText = Append(@, event)]
            IN pushEvent([s EXCEPT !.messages[index + 1].item = writeSummaryText(@, event),
                                   !.messages[index + 1].augmentations = recorded],
                         index, event)
       ELSE s

\* default: an event kind without a handler
applyDefault(s, event) ==
    IF "output_index" \in DOMAIN event
    THEN recordOutputEvent(s, event.output_index,
                           IF "item_id" \in DOMAIN event THEN event.item_id ELSE NoId, event).s
    ELSE s

applyToMessages(s, event) ==
    CASE event.type \in {"response.output_item.added", "response.output_item.done"} ->
            applyOutputItem(s, event)
      [] event.type \in {"response.output_text.delta", "response.output_text.done"} ->
            applyText(s, event)
      [] event.type \in {"response.custom_tool_call_input.delta", "response.custom_tool_call_input.done"} ->
            applyCustomToolInput(s, event)
      [] event.type \in ToolEventTypes -> applyToolField(s, event)
      [] event.type = "response.image_generation_call.partial_image" -> applyPartialImage(s, event)
      [] event.type \in ReasoningPartTypes -> applyReasoningPart(s, event)
      [] event.type \in ReasoningDoneTypes -> applyReasoningDone(s, event)
      [] event.type \in ReasoningDeltaTypes -> applyReasoningDelta(s, event)
      [] event.type \in LifecycleTypes \cup {"response.queued", "error"} -> s
      [] OTHER -> applyDefault(s, event)

\* ---------------------------------------------------------------- handleEvent
handleEvent_errorNotStored(s, event) ==
    Let(mutateSnapshot(emit(s, "event"), event), LAMBDA s1 :
    IF s1.thrown THEN s1
    ELSE
    Let(applyToMessages(s1, event), LAMBDA s2 :
    Let(IF event.type = "error"
        THEN emitError([s2 EXCEPT !.ended = TRUE])
        ELSE s2, LAMBDA s3 :
    emitChange(IF event.type = "response.queued" THEN [s3 EXCEPT !.status = "queued"] ELSE s3))))

handleEvent_changeBeforeTranscript(s, event) ==
    Let(mutateSnapshot(emit(s, "event"), event), LAMBDA s1 :
    IF s1.thrown THEN s1
    ELSE
    Let(emitChange(s1), LAMBDA s2 :
    Let(applyToMessages(s2, event), LAMBDA s3 :
    Let(IF event.type = "error"
        THEN emitError([s3 EXCEPT !.lastError = event, !.ended = TRUE])
        ELSE s3, LAMBDA s4 :
    IF event.type = "response.queued" THEN [s4 EXCEPT !.status = "queued"] ELSE s4))))

\* response.queued is given no case of its own
handleEvent_queuedIgnored(s, event) ==
    Let(mutateSnapshot(emit(s, "event"), event), LAMBDA s1 :
    IF s1.thrown THEN s1
    ELSE
    Let(applyToMessages(s1, event), LAMBDA s2 :
    Let(IF event.type = "error"
        THEN emitError([s2 EXCEPT !.lastError = event, !.ended = TRUE])
        ELSE s2, LAMBDA s3 :
    emitChange(s3))))

\* an exception leaves the method at the statement that threw: nothing after
\* it runs and nothing before it is undone
handleEvent(s, event) ==
    Let(mutateSnapshot(emit(s, "event"), event), LAMBDA s1 :
    IF s1.thrown THEN s1
    ELSE
    Let(applyToMessages(s1, event), LAMBDA s2 :
    Let(IF event.type = "error"
        THEN emitError([s2 EXCEPT !.lastError = event, !.ended = TRUE])
        ELSE s2, LAMBDA s3 :
    emitChange(IF event.type = "response.queued" THEN [s3 EXCEPT !.status = "queued"] ELSE s3))))

\* ------------------------------------------------------------------ inputs
ResponseIds == {"resp_1", "resp_2"}
ItemIds == {"item_a", "item_b"}

createUserMessage(text) == [type |-> "message", role |-> "user", content |-> text]

\* the item the service sends for output index k: kind and id vary with k
ItemOfKind(kind, id) ==
    CASE kind = "message" ->
            [type |-> "message", id |-> id, status |-> "in_progress", role |-> "assistant",
             content |-> <<>>]
      [] kind = "mcp_approval_request" ->
            [type |-> "mcp_approval_request", id |-> id, name |-> "", arguments |-> "",
             server_label |-> ""]
      [] OTHER -> createPlaceholderOutput(kind, id)

SeedItemId(k) == "seed_" \o ToString(k)

\* an output array holding n items at positions 0 .. n-1
OutputArray(n, kind) ==
    [i \in OutputIndices |-> IF i < n THEN ItemOfKind(kind, SeedItemId(i)) ELSE NoItem]

MakeResponse(id, responseStatus, output) ==
    [object |-> "response", id |-> id, status |-> responseStatus, output |-> output]

\* the same items as a terminal payload carries them
FinishedOutputArray(n) ==
    [i \in OutputIndices |-> IF i < n
                             THEN [ItemOfKind("message", SeedItemId(i)) EXCEPT !.status = "completed"]
                             ELSE NoItem]

OutputCount(response) ==
    IF response.object = "undefined" THEN 0
    ELSE Cardinality({i \in OutputIndices : response.output[i].type # "undefined"})

\* ----------------------------------------------------------------- actions
Commit(s) ==
    /\ messages' = s.messages
    /\ idToIndex' = s.idToIndex
    /\ outputIndexToMessageIndex' = s.outputIndexToMessageIndex
    /\ responseSnapshot' = s.responseSnapshot
    /\ status' = s.status
    /\ lastError' = s.lastError
    /\ sessionAugmentations' = s.sessionAugmentations
    /\ ended' = s.ended
    /\ endEmitted' = s.endEmitted
    /\ currentResponseId' = s.currentResponseId
    /\ emitted' = s.emitted
    /\ changes' = s.changes
    /\ thrown' = s.thrown
    /\ endCount' = s.endCount
    /\ nextUid' = s.nextUid
    /\ epoch' = s.epoch
    /\ earlyInputs' = s.earlyInputs
    /\ epochInputs' = s.epochInputs
    /\ everEnded' = (everEnded \/ s.ended)

\* the session right after `new ResponseSession(options)` returned
Constructed(s) ==
    /\ messages = s.messages
    /\ idToIndex = s.idToIndex
    /\ outputIndexToMessageIndex = s.outputIndexToMessageIndex
    /\ responseSnapshot = s.responseSnapshot
    /\ status = s.status
    /\ lastError = s.lastError
    /\ sessionAugmentations = s.sessionAugmentations
    /\ ended = s.ended
    /\ endEmitted = s.endEmitted
    /\ currentResponseId = s.currentResponseId
    /\ emitted = <<>>
    /\ changes = <<>>
    /\ thrown = FALSE
    /\ endCount = s.endCount
    /\ nextUid = s.nextUid
    /\ epoch = s.epoch
    /\ earlyInputs = s.earlyInputs
    /\ epochInputs = s.epochInputs
    /\ everEnded = s.ended

SessionInit ==
    \E n \in 0 .. MaxSeedInputs, m \in 0 .. MaxSeedOutputs,
       seeded \in BOOLEAN, seedStatus \in {"in_progress", "completed"} :
        /\ seedInputs = [i \in 1 .. n |-> createUserMessage("hello")]
        /\ seedResponse = IF seeded
                          THEN MakeResponse("resp_0", seedStatus, OutputArray(m, "message"))
                          ELSE NoResponse
        /\ (~seeded => (m = 0 /\ seedStatus = "in_progress"))
        /\ Constructed(constructor(seedInputs, seedResponse))
        /\ steps = 0
        /\ lastEvent = NoEvent
        /\ sawTerminal = FALSE
        /\ startedByCreated = FALSE
        /\ carriedStatus = IF seeded THEN seedStatus ELSE "none"

\* the refs of a hook that has sent nothing
HookInit ==
    /\ streamingRef = FALSE
    /\ abortRef = NoController
    /\ aborted = {}
    /\ callPc = [c \in CallIds |-> "idle"]

\* no consume call is made on the session
Init ==
    /\ SessionInit
    /\ HookInit
    /\ source = <<>>
    /\ cursor = 0
    /\ consumePc = "idle"
    /\ returned = NoResponse

\* this.addInput(input)
CallAddInput(input) ==
    /\ steps < MaxSteps
    /\ Commit(addInput(Session, input))
    /\ steps' = steps + 1
    /\ lastEvent' = NoEvent
    /\ UNCHANGED <<sawTerminal, startedByCreated, carriedStatus, seedInputs, seedResponse>>
    /\ UNCHANGED consumeVars

\* session.addInput(input), called by the owner of the session
AddInput(input) ==
    /\ CallAddInput(input)
    /\ UNCHANGED hookVars

\* this.handleEvent(event); the caller's object is identified by its
\* sequence_number, the number of the call
CallHandleEvent(fields) ==
    LET event == [sequence_number |-> steps + 1] @@ fields
    IN /\ steps < MaxSteps
       /\ Commit(handleEvent(Session, event))
       /\ steps' = steps + 1
       /\ lastEvent' = event
       /\ sawTerminal' = (sawTerminal \/ event.type \in {"response.completed", "response.failed",
                                                         "response.incomplete", "error"})
       /\ startedByCreated' = IF epoch' = epoch THEN startedByCreated
                              ELSE event.type = "response.created"
       /\ carriedStatus' = IF /\ event.type \in {"response.created", "response.in_progress"}
                              /\ "response" \in DOMAIN event
                           THEN event.response.status ELSE carriedStatus
       /\ UNCHANGED <<seedInputs, seedResponse>>

\* session.handleEvent(event), called by the owner of the session
HandleEvent(fields) ==
    /\ CallHandleEvent(fields)
    /\ UNCHANGED consumeVars
    /\ UNCHANGED hookVars

ResponseLifecycle(type, response) ==
    /\ HandleEvent([type |-> type, response |-> response])

OutputItemAdded(outputIndex, item) ==
    /\ HandleEvent([type |-> "response.output_item.added", item |-> item, output_index |-> outputIndex])

OutputItemDone(outputIndex, item) ==
    /\ HandleEvent([type |-> "response.output_item.done", item |-> item, output_index |-> outputIndex])

OutputTextDelta(outputIndex, itemId, contentIndex, delta) ==
    /\ HandleEvent([type |-> "response.output_text.delta", output_index |-> outputIndex,
                    item_id |-> itemId, content_index |-> contentIndex, delta |-> delta])

OutputTextDone(outputIndex, itemId, contentIndex, text) ==
    /\ HandleEvent([type |-> "response.output_text.done", text |-> text,
                    output_index |-> outputIndex, item_id |-> itemId, content_index |-> contentIndex])

ToolCallDelta(type, outputIndex, itemId, delta) ==
    /\ HandleEvent([type |-> type, output_index |-> outputIndex, item_id |-> itemId, delta |-> delta])

ToolCallDone(type, outputIndex, itemId, value) ==
    /\ HandleEvent([type |-> type, output_index |-> outputIndex, item_id |-> itemId]
                   @@ (ToolField(ToolKind(type)) :> value))

PartialImage(outputIndex, itemId) ==
    /\ HandleEvent([type |-> "response.image_generation_call.partial_image",
                    output_index |-> outputIndex, item_id |-> itemId, partial_image_index |-> 0,
                    partial_image_b64 |-> "AAAA"])

\* an event kind the router has no case for
UnknownEvent(outputIndex, itemId) ==
    /\ HandleEvent([type |-> "response.web_search_call.searching", output_index |-> outputIndex,
                    item_id |-> itemId])

\* a lifecycle event that arrives without its `response` field
LifecycleWithoutResponse(type) ==
    /\ HandleEvent([type |-> type])

UnknownEventWithoutItemId(outputIndex) ==
    /\ HandleEvent([type |-> "response.web_search_call.searching", output_index |-> outputIndex])

ErrorEvent ==
    /\ HandleEvent([type |-> "error", message |-> "boom", code |-> "stream_error", param |-> "null"])

ResponseQueued ==
    /\ HandleEvent([type |-> "response.queued",
                    response |-> MakeResponse("resp_1", "queued", OutputArray(0, "message"))])

\* ------------------------------------------------------------ specifications
\* Transcript order: inputs, two responses, items arriving in any index order;
\* response.created carries an empty output array, response.completed the
\* finished one; a text delta for the highest index may arrive before its item
Next ==
    \/ AddInput(createUserMessage("hello"))
    \/ \E id \in ResponseIds :
          ResponseLifecycle("response.created",
                            MakeResponse(id, "in_progress", OutputArray(0, "message")))
    \/ \E id \in ResponseIds :
          ResponseLifecycle("response.completed",
                            MakeResponse(id, "completed", OutputArray(MaxSeedOutputs, "message")))
    \/ \E i \in OutputIndices : OutputItemAdded(i, ItemOfKind("message", "item_a"))
    \/ OutputTextDelta(MaxOutputIndex, "item_b", 0, "x")

Spec == Init /\ [][Next]_vars

\* The caller keeps the object it passed to handleEvent and overwrites a field
\* of it.  The session holds that very object wherever it stored the event
\* without clone: entry.events, augmentations.partialImages, lastError.  The
\* snapshot handed to the `change` listeners holds the same message objects.
Overwrite(event, sequenceNumber) ==
    IF event.type # "undefined" /\ event.sequence_number = sequenceNumber
    THEN [event EXCEPT !.type = "overwritten by caller"]
    ELSE event

OverwriteAll(events, sequenceNumber) ==
    [k \in 1 .. Len(events) |-> Overwrite(events[k], sequenceNumber)]

OverwriteInMessage(message, sequenceNumber) ==
    IF message.kind = "output"
    THEN [message EXCEPT !.events = OverwriteAll(@, sequenceNumber),
                         !.augmentations = IF @.defined
                                           THEN [@ EXCEPT !.partialImages = OverwriteAll(@, sequenceNumber)]
                                           ELSE @]
    ELSE message

CallerMutatesEvent(sequenceNumber) ==
    /\ sequenceNumber \in 1 .. steps
    /\ messages' = [k \in 1 .. Len(messages) |-> OverwriteInMessage(messages[k], sequenceNumber)]
    /\ lastError' = Overwrite(lastError, sequenceNumber)
    /\ changes' = [k \in 1 .. Len(changes) |->
                     [changes[k] EXCEPT
                        !.messages = [j \in 1 .. Len(@) |-> OverwriteInMessage(@[j], sequenceNumber)],
                        !.error = Overwrite(@, sequenceNumber)]]
    /\ UNCHANGED <<idToIndex, outputIndexToMessageIndex, responseSnapshot, status,
                   sessionAugmentations, ended, endEmitted, currentResponseId,
                   emitted, thrown, startedByCreated, endCount, everEnded, steps,
                   lastEvent, nextUid, epoch, earlyInputs, epochInputs, sawTerminal,
                   carriedStatus, seedInputs, seedResponse>>
    /\ UNCHANGED consumeVars
    /\ UNCHANGED hookVars

\* Lifecycle and terminal signal: every lifecycle event, error, queued, a
\* stray delta and inputs.  A created / in_progress payload may carry any
\* status; a terminal event carries its own.
PayloadStatuses(type) ==
    CASE type \in {"response.created", "response.in_progress"} -> {"in_progress", "completed"}
      [] type = "response.completed" -> {"completed"}
      [] type = "response.failed" -> {"failed"}
      [] OTHER -> {"incomplete"}

NextLifecycle ==
    \/ AddInput(createUserMessage("hello"))
    \/ \E type \in LifecycleTypes, id \in ResponseIds :
          \E payloadStatus \in PayloadStatuses(type) :
              ResponseLifecycle(type, MakeResponse(id, payloadStatus, OutputArray(0, "message")))
    \/ ErrorEvent
    \/ ResponseQueued
    \/ OutputTextDelta(0, "item_a", 0, "x")

SpecLifecycle == Init /\ [][NextLifecycle]_vars

\* Item content: one output index, items of several kinds, deltas and done
\* events of every accumulating family
ContentKinds == {"message", "function_call", "custom_tool_call"}
ToolDeltaTypes == {"response.function_call_arguments.delta", "response.custom_tool_call_input.delta",
                   "response.mcp_call_arguments.delta", "response.code_interpreter_call_code.delta"}
ToolDoneTypes == {"response.function_call_arguments.done", "response.custom_tool_call_input.done",
                  "response.mcp_call_arguments.done", "response.code_interpreter_call_code.done"}

NextContent ==
    \/ \E type \in {"response.created", "response.in_progress"} :
          ResponseLifecycle(type, MakeResponse("resp_1", "in_progress", OutputArray(0, "message")))
    \/ \E kind \in ContentKinds : OutputItemAdded(0, ItemOfKind(kind, "item_a"))
    \/ OutputTextDelta(0, "item_a", 0, "x")
    \/ OutputTextDone(0, "item_a", 0, "T")
    \/ \E type \in ToolDeltaTypes : ToolCallDelta(type, 0, "item_a", "x")
    \/ \E type \in ToolDoneTypes : ToolCallDone(type, 0, "item_a", "V")
    \/ PartialImage(0, "item_a")

SpecContent == Init /\ [][NextContent]_vars

\* Caller-side aliasing: events of the kinds the session stores, and the
\* caller overwriting an event object it passed earlier
NextClone ==
    \/ ResponseLifecycle("response.created",
                         MakeResponse("resp_1", "in_progress", OutputArray(0, "message")))
    \/ \E i \in {0, 1} : OutputItemAdded(i, ItemOfKind("message", "item_a"))
    \/ OutputItemDone(0, ItemOfKind("message", "item_a"))
    \/ OutputTextDelta(0, "item_a", 0, "x")
    \/ PartialImage(0, "item_a")
    \/ UnknownEvent(0, "item_a")
    \/ ErrorEvent
    \/ \E n \in 1 .. MaxSteps : CallerMutatesEvent(n)

SpecClone == Init /\ [][NextClone]_vars

\* Response epochs: every lifecycle event for two response ids; created
\* carries an empty output array, in_progress an empty or a filled one, the
\* terminal events the filled one; items arrive for the lowest and the
\* highest index
StatusOf(type) ==
    CASE type \in {"response.created", "response.in_progress"} -> "in_progress"
      [] type = "response.completed" -> "completed"
      [] type = "response.failed" -> "failed"
      [] OTHER -> "incomplete"

NextEpoch ==
    \/ \E id \in ResponseIds :
          ResponseLifecycle("response.created",
                            MakeResponse(id, "in_progress", OutputArray(0, "message")))
    \/ \E id \in ResponseIds, n \in {0, MaxSeedOutputs} :
          ResponseLifecycle("response.in_progress",
                            MakeResponse(id, "in_progress", OutputArray(n, "message")))
    \/ \E type \in {"response.completed", "response.failed", "response.incomplete"},
          id \in ResponseIds :
          ResponseLifecycle(type, MakeResponse(id, StatusOf(type),
                                               FinishedOutputArray(MaxSeedOutputs)))
    \/ \E i \in {0, MaxOutputIndex} : OutputItemAdded(i, ItemOfKind("message", SeedItemId(i)))

SpecEpoch == Init /\ [][NextEpoch]_vars

\* Malformed events: the stream loop parses whatever the server sent, hands
\* it to handleEvent inside try / catch and goes on with the next event
NextAtomic ==
    \/ AddInput(createUserMessage("hello"))
    \/ ResponseLifecycle("response.created",
                         MakeResponse("resp_1", "in_progress", OutputArray(0, "message")))
    \/ \E i \in {0, 1} : OutputItemAdded(i, ItemOfKind("message", SeedItemId(i)))
    \/ OutputTextDelta(0, SeedItemId(0), 0, "x")
    \/ \E type \in LifecycleTypes : LifecycleWithoutResponse(type)

SpecAtomic == Init /\ [][NextAtomic]_vars

\* Identity and lookup: two output indices whose items have the ids item_a
\* and item_b.  Text may arrive before its item, under the item's id or under
\* a provisional one, and an event may name the id of one item together with
\* the index of the other; unhandled event kinds come with and without item_id
StreamItemId(outputIndex) == IF outputIndex = 0 THEN "item_a" ELSE "item_b"

NextIdentity ==
    \/ AddInput(createUserMessage("hello"))
    \/ ResponseLifecycle("response.created",
                         MakeResponse("resp_1", "in_progress", OutputArray(0, "message")))
    \/ \E i \in {0, 1} : OutputItemAdded(i, ItemOfKind("message", StreamItemId(i)))
    \/ \E i \in {0, 1} : OutputTextDelta(i, StreamItemId(i), 0, "x")
    \/ OutputTextDelta(0, "item_provisional", 0, "x")
    \/ OutputTextDelta(1, StreamItemId(0), 0, "x")
    \/ UnknownEvent(0, StreamItemId(0))
    \/ UnknownEventWithoutItemId(0)

SpecIdentity == Init /\ [][NextIdentity]_vars

\* consume(stream): one loop draining a finite event source.  The source
\* yields a well-formed stream or any other sequence of these events: events
\* after a terminal or error event, and a terminal event that lost its
\* `response` field, on which handleEvent throws.
StreamEvents ==
    { [type |-> "response.created",
       response |-> MakeResponse("resp_1", "in_progress", OutputArray(0, "message"))],
      [type |-> "response.output_item.added", item |-> ItemOfKind("message", SeedItemId(0)),
       output_index |-> 0],
      [type |-> "response.output_text.delta", output_index |-> 0, item_id |-> SeedItemId(0),
       content_index |-> 0, delta |-> "x"],
      [type |-> "response.completed",
       response |-> MakeResponse("resp_1", "completed", FinishedOutputArray(1))],
      [type |-> "error", message |-> "boom", code |-> "stream_error", param |-> "null"],
      [type |-> "response.completed"] }

Streams == UNION {[1 .. n -> StreamEvents] : n \in 0 .. MaxStream}

InitConsume ==
    /\ SessionInit
    /\ HookInit
    /\ source \in Streams
    /\ cursor = 0
    /\ consumePc = "idle"
    /\ returned = NoResponse

sessionVars == <<messages, idToIndex, outputIndexToMessageIndex, responseSnapshot, status,
                 lastError, sessionAugmentations, ended, endEmitted, currentResponseId,
                 emitted, changes, thrown, startedByCreated, endCount, everEnded, steps,
                 lastEvent, nextUid, epoch, earlyInputs, epochInputs, sawTerminal,
                 carriedStatus, seedInputs, seedResponse>>

\* for await (const event of stream): the next turn of the loop, after `taken`
\* events; this loop leaves at the first terminal or error event it handled
forAwait_stopAtTerminal(stream, taken) ==
    IF /\ taken < Len(stream)
       /\ (taken = 0 \/ stream[taken].type \notin {"response.completed", "response.failed",
                                                     "response.incomplete", "error"})
    THEN "body" ELSE "exit"

forAwait(stream, taken) ==
    IF taken < Len(stream) THEN "body" ELSE "exit"

\* session.consume(stream) is called: the loop asks the source for an event
Consume ==
    /\ consumePc = "idle"
    /\ consumePc' = "iterating"
    /\ UNCHANGED <<sessionVars, source, cursor, returned>>
    /\ UNCHANGED hookVars

\* the source yields its next event and the loop body runs; an exception of
\* handleEvent leaves the loop and rejects the promise
ConsumeEvent ==
    /\ consumePc = "iterating"
    /\ forAwait(source, cursor) = "body"
    /\ CallHandleEvent(source[cursor + 1])
    /\ cursor' = cursor + 1
    /\ consumePc' = IF thrown' THEN "rejected" ELSE "iterating"
    /\ UNCHANGED <<source, returned>>
    /\ UNCHANGED hookVars

\* the source is exhausted: return this.responseSnapshot
ConsumeReturn ==
    /\ consumePc = "iterating"
    /\ forAwait(source, cursor) = "exit"
    /\ returned' = responseSnapshot
    /\ consumePc' = "returned"
    /\ UNCHANGED <<sessionVars, source, cursor>>
    /\ UNCHANGED hookVars

NextConsume ==
    \/ Consume
    \/ ConsumeEvent
    \/ ConsumeReturn

\* The control of the loop alone: what a step of NextConsume does to cursor
\* and consumePc.  Every step of NextConsume is a step of LoopTurn, and
\* LoopTurn is enabled exactly where NextConsume is.
LoopTurn ==
    \/ /\ consumePc = "idle"
       /\ consumePc' = "iterating"
       /\ cursor' = cursor
    \/ /\ consumePc = "iterating"
       /\ forAwait(source, cursor) = "body"
       /\ cursor' = cursor + 1
       /\ consumePc' \in {"iterating", "rejected"}
    \/ /\ consumePc = "iterating"
       /\ forAwait(source, cursor) = "exit"
       /\ cursor' = cursor
       /\ consumePc' = "returned"

\* the event loop resumes the for-await loop whenever the source has yielded
\* or finished, and the loop body runs to its end without suspending
SpecConsume == InitConsume /\ [][NextConsume]_vars /\ WF_<<cursor, consumePc>>(LoopTurn)

\* Text streaming: one loop draining a stream of lifecycle events, the item of
\* output index 0 and text deltas for it, in any order, long enough for two
\* deltas behind response.created and response.output_item.added
DeltaStreamEvents ==
    { [type |-> "response.created",
       response |-> MakeResponse("resp_1", "in_progress", OutputArray(0, "message"))],
      [type |-> "response.in_progress",
       response |-> MakeResponse("resp_1", "in_progress", OutputArray(0, "message"))],
      [type |-> "response.output_item.added", item |-> ItemOfKind("message", "item_a"),
       output_index |-> 0],
      [type |-> "response.output_text.delta", output_index |-> 0, item_id |-> "item_a",
       content_index |-> 0, delta |-> "x"],
      [type |-> "response.output_text.delta", output_index |-> 0, item_id |-> "item_a",
       content_index |-> 0, delta |-> "y"] }

DeltaStreams == UNION {[1 .. n -> DeltaStreamEvents] : n \in 0 .. MaxStream + 1}

InitDeltas ==
    /\ SessionInit
    /\ HookInit
    /\ source \in DeltaStreams
    /\ cursor = 0
    /\ consumePc = "idle"
    /\ returned = NoResponse

SpecDeltas == InitDeltas /\ [][NextConsume]_vars

\* Resume: the session was constructed from a prior snapshot and the stream
\* it rejoins repeats that response: a lifecycle event carries the id and the
\* output items of the snapshot, with the status of its type
ResumeTypes == {"response.in_progress", "response.completed", "response.failed",
                "response.incomplete"}

ResumedLifecycle(type) ==
    /\ seedResponse.object # "undefined"
    /\ ResponseLifecycle(type, [seedResponse EXCEPT !.status = StatusOf(type)])

NextResume ==
    \/ AddInput(createUserMessage("hello"))
    \/ \E type \in ResumeTypes : ResumedLifecycle(type)
    \/ OutputTextDelta(0, SeedItemId(0), 0, "x")

SpecResume == Init /\ [][NextResume]_vars

\* Inputs between and during responses: a user message, the output of a
\* function call, an earlier output item sent back as input (it has the id of
\* an output), and the answer to an approval request
InputItems ==
    { createUserMessage("hello"),
      [type |-> "function_call_output", output |-> "42", call_id |-> "call_1"],
      [ItemOfKind("message", SeedItemId(0)) EXCEPT !.status = "completed"] }

ApprovalRequestIds == {"mcpr_1"}

\* this.addApprovalResponse(approvalRequestId, approve)
CallAddApprovalResponse(approvalRequestId, approve) ==
    /\ steps < MaxSteps
    /\ Commit(addApprovalResponse(Session, approvalRequestId, approve))
    /\ steps' = steps + 1
    /\ lastEvent' = NoEvent
    /\ UNCHANGED <<sawTerminal, startedByCreated, carriedStatus, seedInputs, seedResponse>>
    /\ UNCHANGED consumeVars

\* session.addApprovalResponse(approvalRequestId, approve), called by the owner
AddApprovalResponse(approvalRequestId, approve) ==
    /\ CallAddApprovalResponse(approvalRequestId, approve)
    /\ UNCHANGED hookVars

NextInputs ==
    \/ \E input \in InputItems : AddInput(input)
    \/ \E id \in ApprovalRequestIds, approve \in BOOLEAN : AddApprovalResponse(id, approve)
    \/ ResponseLifecycle("response.created",
                         MakeResponse("resp_1", "in_progress", OutputArray(0, "message")))
    \/ OutputItemAdded(0, ItemOfKind("mcp_approval_request", "mcpr_1"))
    \/ ResponseLifecycle("response.completed",
                         MakeResponse("resp_1", "completed", FinishedOutputArray(1)))

SpecInputs == Init /\ [][NextInputs]_vars

\* ------------------------------------------------------------ useResponses
\* The hook owns one session and starts one fetch-and-read loop per
\* sendMessage call.  A call runs without interruption between two awaits, so
\* each action is one such stretch of it.
Hook == [streamingRef |-> streamingRef, abortRef |-> abortRef, aborted |-> aborted]

CommitHook(h) ==
    /\ streamingRef' = h.streamingRef
    /\ abortRef' = h.abortRef
    /\ aborted' = h.aborted

\* cancel()
cancel(h) ==
    IF h.abortRef # NoController
    THEN [h EXCEPT !.aborted = @ \cup {h.abortRef},
                   !.abortRef = NoController,
                   !.streamingRef = FALSE]
    ELSE h

\* sendMessage up to `await fetch`, without its addInput: cancel the active
\* stream if the flag says there is one, then install the new controller
startStream(h, call) ==
    LET h1 == IF h.streamingRef THEN cancel(h) ELSE h
    IN [h1 EXCEPT !.abortRef = call, !.streamingRef = TRUE]

\* the finally block of sendMessage
finally(h, call) ==
    [h EXCEPT !.streamingRef = FALSE,
              !.abortRef = IF @ = call THEN NoController ELSE @]

\* the calls are numbered in the order they are made
NextCall == Cardinality({c \in CallIds : callPc[c] # "idle"}) + 1

\* sendMessage(text) with a non-empty text, up to `await fetch`
SendMessage ==
    /\ NextCall \in CallIds
    /\ CallAddInput(createUserMessage("hello"))
    /\ CommitHook(startStream(Hook, NextCall))
    /\ callPc' = [callPc EXCEPT ![NextCall] = "fetching"]

\* the approval requests of the transcript that have no approval response
remainingPendingIds(msgs) ==
    {msgs[i].item.id : i \in {j \in 1 .. Len(msgs) : /\ msgs[j].kind = "output"
                                                     /\ msgs[j].item.type = "mcp_approval_request"}}
    \ {msgs[i].item.approval_request_id :
          i \in {j \in 1 .. Len(msgs) : /\ msgs[j].kind = "input"
                                        /\ msgs[j].item.type = "mcp_approval_response"}}

\* sendMcpApprovalResponse(id, approve): when no approval is pending and the
\* flag says nothing streams, it calls sendMessage("", true), which adds no
\* input and runs up to `await fetch`
SendMcpApprovalResponse(approvalRequestId, approve) ==
    /\ CallAddApprovalResponse(approvalRequestId, approve)
    /\ IF remainingPendingIds(messages') = {} /\ ~streamingRef
       THEN /\ NextCall \in CallIds
            /\ CommitHook(startStream(Hook, NextCall))
            /\ callPc' = [callPc EXCEPT ![NextCall] = "fetching"]
       ELSE UNCHANGED hookVars

\* cancel() called by the user interface
Cancel ==
    /\ abortRef # NoController
    /\ CommitHook(cancel(Hook))
    /\ UNCHANGED <<sessionVars, consumeVars, callPc>>

\* `await fetch` resolves with a streaming body
FetchResolves(call) ==
    /\ callPc[call] = "fetching"
    /\ call \notin aborted
    /\ callPc' = [callPc EXCEPT ![call] = "reading"]
    /\ UNCHANGED <<sessionVars, consumeVars, streamingRef, abortRef, aborted>>

\* `await fetch` rejects or the response is not ok: the catch block hands an
\* error event to the session, then the finally block runs
FetchFails(call) ==
    /\ callPc[call] = "fetching"
    /\ call \notin aborted
    /\ CallHandleEvent([type |-> "error", message |-> "Streaming request failed",
                        code |-> "stream_error", param |-> "null"])
    /\ CommitHook(finally(Hook, call))
    /\ callPc' = [callPc EXCEPT ![call] = "done"]
    /\ UNCHANGED consumeVars

\* `await reader.read()` resolves with a chunk that holds one event line
ReadChunk(call, fields) ==
    /\ callPc[call] = "reading"
    /\ call \notin aborted
    /\ CallHandleEvent(fields)
    /\ UNCHANGED consumeVars
    /\ UNCHANGED hookVars

\* `await reader.read()` resolves with done: the loop ends, the buffer is
\* empty, the finally block runs
ReadDone(call) ==
    /\ callPc[call] = "reading"
    /\ call \notin aborted
    /\ CommitHook(finally(Hook, call))
    /\ callPc' = [callPc EXCEPT ![call] = "done"]
    /\ UNCHANGED <<sessionVars, consumeVars>>

\* a catch block without the AbortError test
AbortError_reported(call) ==
    /\ callPc[call] \in {"fetching", "reading"}
    /\ call \in aborted
    /\ CallHandleEvent([type |-> "error", message |-> "The operation was aborted",
                        code |-> "stream_error", param |-> "null"])
    /\ CommitHook(finally(Hook, call))
    /\ callPc' = [callPc EXCEPT ![call] = "done"]
    /\ UNCHANGED consumeVars

\* the pending await rejects with AbortError: the catch block returns, the
\* finally block runs
AbortError(call) ==
    /\ callPc[call] \in {"fetching", "reading"}
    /\ call \in aborted
    /\ CommitHook(finally(Hook, call))
    /\ callPc' = [callPc EXCEPT ![call] = "done"]
    /\ UNCHANGED <<sessionVars, consumeVars>>

HookEvents ==
    { [type |-> "response.created",
       response |-> MakeResponse("resp_1", "in_progress", OutputArray(0, "message"))],
      [type |-> "response.output_item.added", item |-> ItemOfKind("mcp_approval_request", "mcpr_1"),
       output_index |-> 0] }

\* useResponses creates its session with `new ResponseSession()`
InitHook ==
    /\ Init
    /\ seedInputs = <<>>
    /\ seedResponse = NoResponse

NextHook ==
    \/ SendMessage
    \/ \E id \in ApprovalRequestIds, approve \in BOOLEAN : SendMcpApprovalResponse(id, approve)
    \/ Cancel
    \/ \E call \in CallIds : FetchResolves(call)
    \/ \E call \in CallIds : FetchFails(call)
    \/ \E call \in CallIds, fields \in HookEvents : ReadChunk(call, fields)
    \/ \E call \in CallIds : ReadDone(call)
    \/ \E call \in CallIds : AbortError(call)

SpecHook == InitHook /\ [][NextHook]_vars

\* Event mix: responses whose two items arrive as item, text, status and
\* unhandled events in any order, an event may name the id of one item with
\* the index of the other, and a done event replaces the item it names
NextEvents ==
    \/ \E id \in ResponseIds :
          ResponseLifecycle("response.created",
                            MakeResponse(id, "in_progress", OutputArray(0, "message")))
    \/ \E i \in {0, 1}, id \in ItemIds : OutputItemAdded(i, ItemOfKind("message", id))
    \/ OutputItemDone(0, [ItemOfKind("message", "item_a") EXCEPT !.status = "completed"])
    \/ \E i \in {0, 1} : OutputTextDelta(i, StreamItemId(i), 0, "x")
    \/ OutputTextDelta(1, StreamItemId(0), 0, "x")
    \/ \E i \in {0, 1} : UnknownEvent(i, StreamItemId(1 - i))
    \/ UnknownEventWithoutItemId(0)
    \/ ResponseLifecycle("response.completed",
                         MakeResponse("resp_1", "completed", FinishedOutputArray(1)))

SpecEvents == InitHook /\ [][NextEvents]_vars

\* Queued: a background response is queued before, while or after the
\* stream delivers the response's events
NextQueued ==
    \/ ResponseQueued
    \/ ResponseLifecycle("response.created",
                         MakeResponse("resp_1", "in_progress", OutputArray(0, "message")))
    \/ OutputItemAdded(0, ItemOfKind("message", SeedItemId(0)))
    \/ OutputTextDelta(0, SeedItemId(0), 0, "x")
    \/ ErrorEvent
    \/ ResponseLifecycle("response.completed",
                         MakeResponse("resp_1", "completed", FinishedOutputArray(1)))

SpecQueued == Init /\ [][NextQueued]_vars

\* ---------------------------------------------------- transport failures
\* `await reader.read()` rejects with an error that is not an AbortError (the
\* connection drops): the catch block hands one error event to the session,
\* then the finally block runs
ReadFails(call) ==
    /\ callPc[call] = "reading"
    /\ call \notin aborted
    /\ CallHandleEvent([type |-> "error", message |-> "network error",
                        code |-> "stream_error", param |-> "null"])
    /\ CommitHook(finally(Hook, call))
    /\ callPc' = [callPc EXCEPT ![call] = "done"]
    /\ UNCHANGED consumeVars

NextAbort ==
    \/ SendMessage
    \/ Cancel
    \/ \E call \in CallIds : FetchResolves(call)
    \/ \E call \in CallIds : FetchFails(call)
    \/ \E call \in CallIds, fields \in HookEvents : ReadChunk(call, fields)
    \/ \E call \in CallIds : ReadFails(call)
    \/ \E call \in CallIds : ReadDone(call)
    \/ \E call \in CallIds : AbortError(call)

SpecAbort == InitHook /\ [][NextAbort]_vars

\* ------------------------------------------------------- the stream lines
\* The body of one call is a sequence of lines.  A line is a comment (":...")
\* or carries data, with or without the "data:" prefix; the data is empty,
\* the "[DONE]" marker, text that is not JSON, or the JSON text of a value.
\* The read loop has no await between two lines of a chunk, and the chunk
\* boundaries do not show in what it does with a line.
JSONText(value) == [value |-> value, text |-> "json"]
NotJSON == [text |-> "{\"type\": \"response.cre"]
DataLine(prefix, data) == [prefix |-> prefix, data |-> data, comment |-> FALSE]
CommentLine == [prefix |-> FALSE, data |-> [text |-> ": keep-alive"], comment |-> TRUE]

\* JSON.parse(data): the value, or a SyntaxError
JSONparse(data) ==
    IF "value" \in DOMAIN data THEN [value |-> data.value, ok |-> TRUE]
    ELSE [value |-> NoEvent, ok |-> FALSE]

\* every line is handed to handleEvent, whatever it holds
parseLine_noCatch(line) ==
    [value |-> IF "value" \in DOMAIN line.data THEN line.data.value
               ELSE [type |-> "error", message |-> line.data.text, code |-> "stream_error",
                     param |-> "null"],
     ok |-> TRUE, skip |-> FALSE]

\* one turn of the inner loop up to the try block: skip says the line was
\* left by a `continue`, ok that JSON.parse returned
parseLine(line) ==
    IF line.comment \/ line.data.text \in {"", "[DONE]"}
    THEN [value |-> NoEvent, ok |-> FALSE, skip |-> TRUE]
    ELSE [skip |-> FALSE] @@ JSONparse(line.data)

StreamLines ==
    { CommentLine,
      DataLine(TRUE, [text |-> ""]),
      DataLine(TRUE, [text |-> "[DONE]"]),
      DataLine(TRUE, NotJSON),
      DataLine(FALSE, NotJSON),
      DataLine(TRUE, JSONText([type |-> "response.created",
                               response |-> MakeResponse("resp_1", "in_progress",
                                                         OutputArray(0, "message"))])),
      DataLine(TRUE, JSONText([type |-> "response.output_text.delta", output_index |-> 0,
                               item_id |-> "item_a", content_index |-> 0, delta |-> "x"])),
      DataLine(FALSE, JSONText([type |-> "response.output_text.delta", output_index |-> 0,
                                item_id |-> "item_a", content_index |-> 0, delta |-> "y"])),
      DataLine(TRUE, JSONText([type |-> "response.created"])) }

LineStreams == UNION {[1 .. n -> StreamLines] : n \in 0 .. MaxStream}

\* the next line of the body: a skipped line and a line that does not parse
\* leave the session alone, a parsed value goes to handleEvent, and an
\* exception of handleEvent is caught like a SyntaxError; the loop goes on
ReadLine(call) ==
    /\ callPc[call] = "reading"
    /\ call \notin aborted
    /\ cursor < Len(source)
    /\ Let(parseLine(source[cursor + 1]), LAMBDA parsed :
           IF parsed.skip \/ ~parsed.ok
           THEN UNCHANGED sessionVars
           ELSE CallHandleEvent(parsed.value))
    /\ cursor' = cursor + 1
    /\ UNCHANGED <<source, consumePc, returned>>
    /\ UNCHANGED hookVars

\* reader.read() reports done after the last line
BodyEnds(call) ==
    /\ cursor = Len(source)
    /\ ReadDone(call)

FirstSendMessage ==
    /\ callPc[1] = "idle"
    /\ SendMessage

InitLines ==
    /\ SessionInit
    /\ HookInit
    /\ seedInputs = <<>>
    /\ seedResponse = NoResponse
    /\ source \in LineStreams
    /\ cursor = 0
    /\ consumePc = "idle"
    /\ returned = NoResponse

NextLines ==
    \/ FirstSendMessage
    \/ FetchResolves(1)
    \/ ReadLine(1)
    \/ BodyEnds(1)

SpecLines == InitLines /\ [][NextLines]_vars

\* Reasoning: one response with a reasoning item at output index 0; summary
\* parts, summary text and raw reasoning text arrive in any order
SummaryIndices == {0, 1}
SummaryPart == [type |-> "summary_text", text |-> ""]

ReasoningSummaryPartAdded(outputIndex, itemId, summaryIndex) ==
    /\ HandleEvent([type |-> "response.reasoning_summary_part.added", output_index |-> outputIndex,
                    item_id |-> itemId, summary_index |-> summaryIndex, part |-> SummaryPart])

ReasoningSummaryTextDelta(outputIndex, itemId, summaryIndex, delta) ==
    /\ HandleEvent([type |-> "response.reasoning_summary_text.delta", output_index |-> outputIndex,
                    item_id |-> itemId, delta |-> delta, summary_index |-> summaryIndex])

ReasoningSummaryTextDone(outputIndex, itemId, summaryIndex, text) ==
    /\ HandleEvent([type |-> "response.reasoning_summary_text.done", text |-> text,
                    output_index |-> outputIndex, item_id |-> itemId, summary_index |-> summaryIndex])

ReasoningTextDelta(outputIndex, itemId, contentIndex, delta) ==
    /\ HandleEvent([type |-> "response.reasoning_text.delta", output_index |-> outputIndex,
                    item_id |-> itemId, content_index |-> contentIndex, delta |-> delta])

NextReasoning ==
    \/ ResponseLifecycle("response.created", MakeResponse("resp_1", "in_progress", OutputArray(0, "message")))
    \/ OutputItemAdded(0, ItemOfKind("reasoning", "rs_1"))
    \/ \E summaryIndex \in SummaryIndices : ReasoningSummaryPartAdded(0, "rs_1", summaryIndex)
    \/ \E summaryIndex \in SummaryIndices : ReasoningSummaryTextDelta(0, "rs_1", summaryIndex, "s")
    \/ \E summaryIndex \in SummaryIndices : ReasoningSummaryTextDone(0, "rs_1", summaryIndex, "T")
    \/ ReasoningTextDelta(0, "rs_1", 0, "r")

SpecReasoning == Init /\ [][NextReasoning]_vars

\* ------------------------------------------------------------------ claims
Positions == 1 .. Len(messages)
OutputPositions == {i \in Positions : messages[i].kind = "output"}
InputPositions == {i \in Positions : messages[i].kind = "input"}

\* C1: whatever order the output-item events arrive in, the Output Messages
\* of the transcript are in ascending outputIndex order after every call:
\* never descending, and strictly ascending among the messages created for
\* one response.
C1_OutputsAscending ==
    \A i, j \in OutputPositions :
        i < j => /\ messages[i].outputIndex <= messages[j].outputIndex
                 /\ (messages[i].epoch = messages[j].epoch
                        => messages[i].outputIndex < messages[j].outputIndex)

\* the spec's example: the items of one response arrived as index 2, then 0,
\* then 1, and sit at ascending positions
C1_Witness ==
    \E p, q, r \in OutputPositions :
        /\ p < q /\ q < r
        /\ messages[p].epoch = messages[q].epoch /\ messages[q].epoch = messages[r].epoch
        /\ messages[p].outputIndex = 0 /\ messages[q].outputIndex = 1 /\ messages[r].outputIndex = 2
        /\ messages[r].uid < messages[p].uid /\ messages[p].uid < messages[q].uid

\* C2: every Input Message added while the transcript held no Output Message
\* is before all Output Messages, in every later state.
C2_InputPrefix ==
    \A i \in InputPositions, j \in OutputPositions :
        messages[i].uid \in earlyInputs => i < j

\* an early input, a later input, and an output that was inserted in front of
\* an existing output
C2_Witness ==
    /\ \E i \in InputPositions : messages[i].uid \in earlyInputs
    /\ \E i \in InputPositions : messages[i].uid \notin earlyInputs
    /\ \E i, j \in OutputPositions : i < j /\ messages[i].uid > messages[j].uid

\* C3: every Input Message that existed before a response's first Output
\* Message was created is before every Output Message of that response.
C3_InputsBeforeResponse ==
    \A i \in InputPositions, j \in OutputPositions :
        messages[i].uid \in epochInputs[messages[j].epoch] => i < j

\* C4: the `end` notification is emitted at most once, in the first call that
\* leaves the session ended; no later call emits it again.
C4_EndOnce == endCount = (IF everEnded THEN 1 ELSE 0)

\* a delta ingested after the terminal event: the session is ended, this call
\* emitted change and status but not end
C4_Witness ==
    /\ ended
    /\ endCount = 1
    /\ lastEvent.type = "response.output_text.delta"
    /\ emitted = <<"event", "change", "status">>

\* C5 as claimed: with no completed / failed / incomplete / error event
\* ingested, the session is not ended, its status is not terminal and `end`
\* was never emitted.
C5_AbruptEnd_Original ==
    ~sawTerminal => (~ended /\ endCount = 0 /\ status \notin TerminalStatuses)

\* C5 amended: with no completed / failed / incomplete / error event ingested,
\* the session is not ended and `end` was never emitted; the status is
\* terminal only when it is the status carried by the seed snapshot or by the
\* last created / in_progress payload.
C5_AbruptEnd ==
    ~sawTerminal => /\ ~ended
                    /\ endCount = 0
                    /\ (status \in TerminalStatuses => status = carriedStatus)

\* the stream stopped after a delta of a started response
C5_Witness ==
    /\ ~sawTerminal
    /\ currentResponseId # NoId
    /\ lastEvent.type = "response.output_text.delta"
    /\ status = "in_progress"

\* the item stored in the transcript for the output index of the last event
EntryAt(outputIndex) ==
    IF /\ Has(outputIndexToMessageIndex, outputIndex)
       /\ outputIndexToMessageIndex[outputIndex] < Len(messages)
    THEN messages[outputIndexToMessageIndex[outputIndex] + 1]
    ELSE [kind |-> "undefined"]

TextOf(item, contentIndex) ==
    IF /\ item.type = "message"
       /\ Len(item.content) > contentIndex
       /\ item.content[contentIndex + 1].type = "output_text"
    THEN <<item.content[contentIndex + 1].text>>
    ELSE <<>>

\* the last call recorded its done event on this entry right after a delta
\* for the same content part
DoneFollowsDelta(entry) ==
    /\ entry.kind = "output"
    /\ Len(entry.events) >= 2
    /\ entry.events[Len(entry.events)] = lastEvent
    /\ entry.events[Len(entry.events) - 1].type = "response.output_text.delta"
    /\ entry.events[Len(entry.events) - 1].content_index = lastEvent.content_index

\* C6: after text deltas for a content part followed by
\* response.output_text.done with text T, the text stored for that part is
\* exactly T, in the transcript item and in the snapshot item.
C6_TextDoneWins ==
    (/\ lastEvent.type = "response.output_text.done"
     /\ DoneFollowsDelta(EntryAt(lastEvent.output_index))) =>
        /\ TextOf(EntryAt(lastEvent.output_index).item, lastEvent.content_index) = <<lastEvent.text>>
        /\ (responseSnapshot.object # "undefined" =>
              TextOf(responseSnapshot.output[lastEvent.output_index], lastEvent.content_index)
                 = <<lastEvent.text>>)

FieldOf(item, kind) ==
    IF item.type = kind THEN <<item[ToolField(kind)]>> ELSE <<>>

\* C7: after a done event of a tool-call family carrying V, the accumulated
\* field of the item equals V in the transcript Output Message and in the
\* snapshot.
C7_ToolDoneWins ==
    lastEvent.type \in ToolDoneTypes =>
        LET kind == ToolKind(lastEvent.type)
        IN /\ (EntryAt(lastEvent.output_index).kind = "output" =>
                 FieldOf(EntryAt(lastEvent.output_index).item, kind) = <<DoneValue(lastEvent)>>)
           /\ (responseSnapshot.object # "undefined" =>
                 FieldOf(responseSnapshot.output[lastEvent.output_index], kind) = <<DoneValue(lastEvent)>>)

ImpliedKind(event) ==
    CASE event.type \in {"response.output_text.delta", "response.output_text.done"} -> "message"
      [] event.type \in ToolEventTypes -> ToolKind(event.type)
      [] event.type = "response.image_generation_call.partial_image" -> "image_generation_call"
      [] OTHER -> "none"

\* C8: an event whose implied kind differs from the kind of the item stored
\* at its output index leaves that item unchanged in the snapshot and in the
\* transcript and adds nothing to its augmentations.
C8_KindMismatchNoOp ==
    [][(steps' = steps + 1 /\ ImpliedKind(lastEvent') # "none") =>
          LET index == lastEvent'.output_index
              kind == ImpliedKind(lastEvent')
          IN /\ (/\ responseSnapshot.object # "undefined"
                 /\ responseSnapshot.output[index].type \notin {"undefined", kind})
                    => responseSnapshot'.output[index] = responseSnapshot.output[index]
             /\ \A p \in OutputPositions :
                   (messages[p].outputIndex = index /\ messages[p].item.type # kind) =>
                       \E q \in 1 .. Len(messages') :
                           /\ messages'[q].uid = messages[p].uid
                           /\ messages'[q].item = messages[p].item
                           /\ messages'[q].augmentations = messages[p].augmentations]_vars

\* what the session stores and exposes
Exposed == <<messages, sessionAugmentations, lastError, responseSnapshot>>

\* C9: the caller mutating an event object after handleEvent returned changes
\* nothing the session stores or exposes.
C9_CloneIsolation ==
    [][(\E n \in 1 .. MaxSteps : CallerMutatesEvent(n)) => Exposed' = Exposed]_vars

\* C10: before any call, a session built from seed inputs and a snapshot with
\* N output items holds the seeded inputs followed by exactly N Output
\* Messages, in snapshot order, outputIndex equal to the snapshot position.
C10_SnapshotResume ==
    (steps = 0 /\ seedResponse.object # "undefined") =>
        LET n == Len(seedInputs)
            N == OutputCount(seedResponse)
        IN /\ Len(messages) = n + N
           /\ \A k \in 1 .. n : /\ messages[k].kind = "input"
                                /\ messages[k].item = seedInputs[k]
           /\ \A k \in 0 .. N - 1 : /\ messages[n + k + 1].kind = "output"
                                    /\ messages[n + k + 1].outputIndex = k
                                    /\ messages[n + k + 1].item = seedResponse.output[k]

C10_Witness ==
    /\ steps = 0
    /\ seedResponse.object # "undefined"
    /\ OutputCount(seedResponse) >= 2
    /\ Len(seedInputs) >= 1
    /\ Cardinality(OutputPositions) = OutputCount(seedResponse)

\* C11: after a response.created event is ingested the tracked response id is
\* the id of the event's response and, until the next reset, every entry of
\* outputIndexToMessageIndex refers to an Output Message created for that
\* response, never to an Output Message of an earlier response.
C11_NewResponseEpoch ==
    /\ (lastEvent.type = "response.created" /\ "response" \in DOMAIN lastEvent)
          => currentResponseId = lastEvent.response.id
    /\ startedByCreated =>
          \A k \in DOMAIN outputIndexToMessageIndex :
              /\ IsOutput(Session, outputIndexToMessageIndex[k])
              /\ messages[outputIndexToMessageIndex[k] + 1].epoch = epoch

\* C12: a response.in_progress / completed / failed / incomplete event resets
\* the identity maps exactly when its response id differs from the tracked
\* one; with the tracked id there is no reset, every Output Message stays in
\* the transcript, and a message registered for an output index stays the
\* message of that index and takes the item the payload has at that index.
C12_ResetOnIdChangeOnly ==
    [][(/\ steps' = steps + 1
        /\ lastEvent'.type \in {"response.in_progress", "response.completed",
                                "response.failed", "response.incomplete"}
        /\ "response" \in DOMAIN lastEvent') =>
          /\ (epoch' # epoch) <=> (lastEvent'.response.id # currentResponseId)
          /\ (lastEvent'.response.id = currentResponseId =>
                /\ outputIndexToMessageIndex # EmptyMap => outputIndexToMessageIndex' # EmptyMap
                /\ \A p \in OutputPositions :
                      \E q \in 1 .. Len(messages') : messages'[q].uid = messages[p].uid
                /\ \A k \in DOMAIN outputIndexToMessageIndex :
                      IsOutput(Session, outputIndexToMessageIndex[k]) =>
                          /\ Has(outputIndexToMessageIndex', k)
                          /\ messages'[outputIndexToMessageIndex'[k] + 1].uid
                                = messages[outputIndexToMessageIndex[k] + 1].uid
                          /\ (lastEvent'.response.output[k].type # "undefined" =>
                                messages'[outputIndexToMessageIndex'[k] + 1].item
                                   = lastEvent'.response.output[k]))]_vars

\* response.completed for the tracked response: the message created by
\* output_item.added is still the message of its index and holds the finished
\* item of the payload
C12_Witness ==
    /\ lastEvent.type = "response.completed"
    /\ lastEvent.response.id = currentResponseId
    /\ \E p \in OutputPositions :
          /\ messages[p].epoch = epoch
          /\ Len(messages[p].events) = 1
          /\ messages[p].events[1].type = "response.output_item.added"
          /\ messages[p].item.status = "completed"
          /\ messages[p].item = lastEvent.response.output[messages[p].outputIndex]

\* C13: after every response.created / in_progress / completed / failed /
\* incomplete event the response snapshot is the event's response, the status
\* is the status of that response, and the session is ended exactly when the
\* event is completed, failed or incomplete.
C13_LifecycleEffect ==
    (lastEvent.type \in LifecycleTypes /\ "response" \in DOMAIN lastEvent) =>
        /\ responseSnapshot = lastEvent.response
        /\ status = lastEvent.response.status
        /\ ended = (lastEvent.type \in {"response.completed", "response.failed",
                                        "response.incomplete"})

\* a response.in_progress event whose payload says completed, ingested after
\* a terminal event: status completed, session not ended
C13_Witness ==
    /\ lastEvent.type = "response.in_progress"
    /\ everEnded
    /\ status = "completed"
    /\ responseSnapshot.id = "resp_2"
    /\ ~ended

\* C14: a handleEvent call that returns has emitted `event` first and exactly
\* one `change`, and the snapshot carried by that `change` holds the
\* transcript, the response snapshot, the status and the error as the call
\* left them, i.e. after both projections were updated.
C14_PerEventOrdering ==
    (lastEvent.type # "undefined" /\ ~thrown) =>
        /\ emitted[1] = "event"
        /\ Cardinality({k \in 1 .. Len(emitted) : emitted[k] = "change"}) = 1
        /\ Len(changes) = 1
        /\ changes[1] = getSnapshot(Session)

\* an output_item.added event: the notified snapshot holds the item in the
\* response and the new Output Message, with the event recorded, in the
\* transcript
C14_Witness ==
    /\ lastEvent.type = "response.output_item.added"
    /\ Len(changes) = 1
    /\ changes[1].response.object # "undefined"
    /\ changes[1].response.output[lastEvent.output_index] = lastEvent.item
    /\ \E p \in 1 .. Len(changes[1].messages) :
          /\ changes[1].messages[p].kind = "output"
          /\ changes[1].messages[p].events = <<lastEvent>>

\* C15: a handleEvent call with an `error` event returns; it leaves the
\* transcript and the response snapshot as they were, stores the event as the
\* last error, marks the session ended, emits on the `error` channel once and
\* the `change` notification of the call carries the event as its error.
C15_ErrorEvent ==
    [][(steps' = steps + 1 /\ lastEvent'.type = "error") =>
          /\ ~thrown'
          /\ messages' = messages
          /\ responseSnapshot' = responseSnapshot
          /\ lastError' = lastEvent'
          /\ ended'
          /\ Cardinality({k \in 1 .. Len(emitted') : emitted'[k] = "error"}) = 1
          /\ Len(changes') = 1
          /\ changes'[1].error = lastEvent']_vars

\* an error in the middle of a response that has streamed text: the session
\* ends in this call with the response still in progress
C15_Witness ==
    /\ lastEvent.type = "error"
    /\ lastError = lastEvent
    /\ emitted = <<"event", "error", "change", "status", "end">>
    /\ status = "in_progress"
    /\ \E p \in OutputPositions : Len(messages[p].events) > 0

\* C16: a handleEvent call that throws leaves the transcript, the response
\* snapshot, the two identity maps, the status and the ended flag as they were
\* before the call.
C16_PerEventAtomicity ==
    [][(steps' = steps + 1 /\ thrown') =>
          /\ messages' = messages
          /\ responseSnapshot' = responseSnapshot
          /\ idToIndex' = idToIndex
          /\ outputIndexToMessageIndex' = outputIndexToMessageIndex
          /\ status' = status
          /\ ended' = ended]_vars

\* the item_id of an event, undefined when the event has none
ItemIdOf(event) == IF "item_id" \in DOMAIN event THEN event.item_id ELSE NoId

\* C17: an event of a kind without handler that carries an output_index (and
\* maybe an item_id) is appended to the events of the Output Message
\* registered for that item_id or, failing that, for that output_index,
\* whenever there is such a message, and the call does not throw.
C17_ForwardCompatibility ==
    [][(steps' = steps + 1 /\ lastEvent'.type = "response.web_search_call.searching") =>
          /\ ~thrown'
          /\ LET p == findOutputEntry(Session, ItemIdOf(lastEvent'), lastEvent'.output_index)
             IN p # -1 =>
                  \E q \in 1 .. Len(messages') :
                      /\ messages'[q].uid = messages[p + 1].uid
                      /\ messages'[q].events = Append(messages[p + 1].events, lastEvent')]_vars

\* the Output Message was created for a text delta that arrived before its
\* item, i.e. around a placeholder
BornAsPlaceholder(message) ==
    /\ message.kind = "output"
    /\ Len(message.events) > 0
    /\ message.events[1].type = "response.output_text.delta"

\* C18: when an event gives another id to the item of an Output Message that
\* was created around a placeholder, then after that call the id map sends
\* the new id to the message, the outputIndex map still sends its output
\* index to it, and the call has not added a message to the transcript.
C18_IdentityStability ==
    [][steps' = steps + 1 =>
          \A p \in OutputPositions : \A q \in 1 .. Len(messages') :
              (/\ messages'[q].uid = messages[p].uid
               /\ BornAsPlaceholder(messages[p])
               /\ HasItemId(messages'[q].item)
               /\ messages'[q].item.id # messages[p].item.id) =>
                  /\ Has(idToIndex', messages'[q].item.id)
                  /\ idToIndex'[messages'[q].item.id] = q - 1
                  /\ Has(outputIndexToMessageIndex', messages'[q].outputIndex)
                  /\ outputIndexToMessageIndex'[messages'[q].outputIndex] = q - 1
                  /\ Len(messages') = Len(messages)]_vars

\* text for output index 0 arrived under a provisional id and created the
\* message, then output_item.added delivered the item with its id item_a;
\* the message sits behind an input, so its position is not its output index
C18_Witness ==
    /\ lastEvent.type = "response.output_item.added"
    /\ \E p \in OutputPositions :
          /\ BornAsPlaceholder(messages[p])
          /\ messages[p].events[1].item_id = "item_provisional"
          /\ messages[p].events[Len(messages[p].events)] = lastEvent
          /\ messages[p].item.id = "item_a"
          /\ p - 1 # messages[p].outputIndex
          /\ findOutputEntry(Session, "item_a", MaxOutputIndex) = p - 1
          /\ findOutputEntry(Session, NoId, messages[p].outputIndex) = p - 1

\* C19: after every call, for every Output Message of the current response
\* at position p, outputIndexToMessageIndex sends its outputIndex to p and,
\* when its item has a non-empty id, idToIndex sends that id to p.
C19_IdentityMapsAfterShifts ==
    \A p \in OutputPositions :
        messages[p].epoch = epoch =>
            /\ Has(outputIndexToMessageIndex, messages[p].outputIndex)
            /\ outputIndexToMessageIndex[messages[p].outputIndex] = p - 1
            /\ (HasItemId(messages[p].item) =>
                  /\ Has(idToIndex, messages[p].item.id)
                  /\ idToIndex[messages[p].item.id] = p - 1)

\* position (0-based) registered for an item id / an output index before the
\* call, -1 when the registration is missing or is not an Output Message
RegisteredById(itemId) ==
    IF itemId # NoId /\ Has(idToIndex, itemId) /\ IsOutput(Session, idToIndex[itemId])
    THEN idToIndex[itemId] ELSE -1

RegisteredByIndex(outputIndex) ==
    IF /\ Has(outputIndexToMessageIndex, outputIndex)
       /\ IsOutput(Session, outputIndexToMessageIndex[outputIndex])
    THEN outputIndexToMessageIndex[outputIndex] ELSE -1

\* C20: for an event carrying item_id and output_index, the Output Message
\* the call updates (the one that receives the event) is the message
\* registered under item_id when there is one, and otherwise the message
\* registered under output_index when there is one.
C20_ResolverPrecedence ==
    [][(/\ steps' = steps + 1
        /\ "item_id" \in DOMAIN lastEvent'
        /\ "output_index" \in DOMAIN lastEvent') =>
          LET byId == RegisteredById(lastEvent'.item_id)
              byIndex == RegisteredByIndex(lastEvent'.output_index)
              target == IF byId # -1 THEN byId ELSE byIndex
          IN target # -1 =>
                \A q \in 1 .. Len(messages') :
                    (/\ messages'[q].kind = "output"
                     /\ Len(messages'[q].events) > 0
                     /\ messages'[q].events[Len(messages'[q].events)] = lastEvent')
                        => messages'[q].uid = messages[target + 1].uid]_vars

\* the last call left an Output Message of the kind its event implies at the
\* event's output index, and the latest event recorded on it is that event
LastEventApplied ==
    \E q \in OutputPositions :
        /\ messages[q].outputIndex = lastEvent.output_index
        /\ messages[q].item.type = ImpliedKind(lastEvent)
        /\ Len(messages[q].events) > 0
        /\ messages[q].events[Len(messages[q].events)] = lastEvent

\* C21: a text or tool-call delta / done event whose item_id and output_index
\* resolve to no Output Message makes the call create an Output Message of
\* the implied kind at that output index and apply the event to it, whatever
\* state the session is in.
C21_PlaceholderCreation ==
    [][(/\ steps' = steps + 1
        /\ lastEvent'.type \in {"response.output_text.delta", "response.output_text.done"}
                                 \cup ToolEventTypes
        /\ findOutputEntry(Session, lastEvent'.item_id, lastEvent'.output_index) = -1)
          => LastEventApplied']_vars

\* C22: after each handleEvent call, for every output index that has an item
\* in the response snapshot, the transcript holds an Output Message with that
\* outputIndex whose item equals the snapshot item.
C22_EquivalentProjections ==
    (lastEvent.type # "undefined" /\ ~thrown /\ responseSnapshot.object # "undefined") =>
        \A i \in OutputIndices :
            responseSnapshot.output[i].type # "undefined" =>
                \E p \in OutputPositions :
                    /\ messages[p].outputIndex = i
                    /\ messages[p].item = responseSnapshot.output[i]

\* C23: no handleEvent or addInput call removes a message from the transcript,
\* and no call changes the relative order of two messages already in it: every
\* message of the old transcript is in the new one, and two old messages stand
\* in the new transcript in the order they had.
C23_AppendSafeOrderStable ==
    [][/\ \A p \in Positions : \E q \in 1 .. Len(messages') : messages'[q].uid = messages[p].uid
       /\ \A p1, p2 \in Positions :
             p1 < p2 =>
                \E q1, q2 \in 1 .. Len(messages') :
                    /\ q1 < q2
                    /\ messages'[q1].uid = messages[p1].uid
                    /\ messages'[q2].uid = messages[p2].uid]_vars

\* a message was inserted in front of messages that were already there, with
\* an input and an older output before it
C23_Witness ==
    \E p1, p2, p3 \in Positions :
        /\ p1 < p2 /\ p2 < p3
        /\ messages[p1].kind = "input"
        /\ messages[p2].kind = "output"
        /\ messages[p3].kind = "output"
        /\ messages[p2].uid > messages[p3].uid
        /\ \E p4 \in Positions : p4 > p3 /\ messages[p4].kind = "input"

\* the session after handleEvent was applied to the events from..cursor of the
\* source, one call per event, in yield order
RECURSIVE HandledInOrder(_, _)
HandledInOrder(s, from) ==
    IF from > cursor THEN s
    ELSE HandledInOrder(handleEvent([s EXCEPT !.emitted = <<>>, !.changes = <<>>, !.thrown = FALSE],
                                    [sequence_number |-> from] @@ source[from]),
                        from + 1)

WellFormedSource ==
    \A i \in 1 .. Len(source) : source[i].type \in LifecycleTypes => "response" \in DOMAIN source[i]

\* C24: consume(stream) calls handleEvent exactly once for each event the
\* source yields, in yield order: the session is at every moment the result of
\* applying handleEvent to the events taken so far, one call each.  The loop
\* is left only when the source is exhausted or handleEvent threw, never
\* because of a terminal or error event; on exhaustion it returns the
\* session's current response snapshot, and for a finite source it ends.
C24_Consume ==
    /\ [](/\ steps = cursor
          /\ cursor > 0 => lastEvent = [sequence_number |-> cursor] @@ source[cursor]
          /\ Session = [HandledInOrder(constructor(seedInputs, seedResponse), 1)
                           EXCEPT !.emitted = <<>>, !.changes = <<>>, !.thrown = FALSE])
    /\ [](consumePc = "returned" => (cursor = Len(source) /\ returned = responseSnapshot))
    /\ [](consumePc = "rejected" => thrown)
    /\ <>(consumePc \in {"returned", "rejected"})
    /\ WellFormedSource ~> (consumePc = "returned")

\* consume returned a snapshot after handling an event that followed a
\* terminal event and one that followed an error event
C24_Witness ==
    /\ consumePc = "returned"
    /\ returned.object # "undefined"
    /\ cursor = Len(source)
    /\ \E i, j \in 1 .. Len(source) :
          /\ i < j
          /\ source[i].type = "response.completed"
          /\ source[j].type = "error"
          /\ j < Len(source)
          /\ lastEvent.type = "response.output_text.delta"

\* what one addInput(input) call leaves behind
InputAppended(input) ==
    /\ Len(messages') = Len(messages) + 1
    /\ SubSeq(messages', 1, Len(messages)) = messages
    /\ messages'[Len(messages')].kind = "input"
    /\ messages'[Len(messages')].item = input
    /\ responseSnapshot' = responseSnapshot
    /\ Cardinality({k \in 1 .. Len(emitted') : emitted'[k] = "change"}) = 1
    /\ Len(changes') = 1
    /\ changes'[1].messages = messages'

\* C25: addInput appends the given item as an Input Message at the end of the
\* transcript, leaves every existing message and the response snapshot
\* unchanged and emits one `change` notification; addApprovalResponse(id,
\* approve) appends exactly one input item of type mcp_approval_response with
\* approval_request_id = id and approve = the decision.
C25_InputFrame ==
    [][/\ \A input \in InputItems : AddInput(input) => InputAppended(input)
       /\ \A id \in ApprovalRequestIds, approve \in BOOLEAN :
             AddApprovalResponse(id, approve) =>
                InputAppended([type |-> "mcp_approval_response", approve |-> approve,
                               approval_request_id |-> id])]_vars

\* a refused approval and an input carrying the id of an output were appended
\* behind the outputs of a response
C25_Witness ==
    \E p, q, r \in Positions :
        /\ p < q /\ q < r
        /\ messages[p].kind = "output"
        /\ messages[p].item.type = "mcp_approval_request"
        /\ messages[q].kind = "input"
        /\ messages[q].item.type = "mcp_approval_response"
        /\ messages[q].item.approval_request_id = messages[p].item.id
        /\ messages[q].item.approve = FALSE
        /\ messages[r].kind = "input"
        /\ HasItemId(messages[r].item)
        /\ lastEvent = NoEvent

\* C26: once a new response has begun, no handleEvent call modifies the item
\* or the recorded events of an Output Message created for an earlier
\* response, even when the new response uses the same output indices.
C26_CrossResponseIsolation ==
    [][\A p \in OutputPositions :
          messages[p].epoch < epoch' =>
             \E q \in 1 .. Len(messages') :
                 /\ messages'[q].uid = messages[p].uid
                 /\ messages'[q].item = messages[p].item
                 /\ messages'[q].events = messages[p].events]_vars

\* d(from) + ... + d(cursor): the deltas of the events from..cursor of the source
RECURSIVE DeltasFrom(_)
DeltasFrom(from) ==
    IF from > cursor THEN "" ELSE source[from].delta \o DeltasFrom(from + 1)

OnlyDeltas(from) ==
    /\ from <= cursor
    /\ \A j \in from .. cursor : source[j].type = "response.output_text.delta"

\* the text of content part 0 of output index 0 is `text` in the transcript
\* item of the current response and in the snapshot item
TextInBoth(text) ==
    /\ \E p \in OutputPositions :
          /\ messages[p].outputIndex = 0
          /\ messages[p].epoch = epoch
          /\ TextOf(messages[p].item, 0) = <<text>>
    /\ responseSnapshot.object # "undefined"
    /\ TextOf(responseSnapshot.output[0], 0) = <<text>>

\* C27: for a message whose response.output_item.added was ingested after
\* response.created, after text deltas d1..dn for one content index and no
\* other event, the text of the content part is d1 + ... + dn in the
\* transcript item and in the snapshot item.
C27_DeltaAccumulation ==
    \A a \in 1 .. cursor :
        (/\ source[a].type = "response.output_item.added"
         /\ \E c \in 1 .. a - 1 : source[c].type = "response.created"
         /\ OnlyDeltas(a + 1))
            => TextInBoth(DeltasFrom(a + 1))

\* created, output_item.added, then the deltas x and y were ingested
C27_Witness ==
    /\ cursor >= 4
    /\ source[cursor - 3].type = "response.created"
    /\ source[cursor - 2].type = "response.output_item.added"
    /\ OnlyDeltas(cursor - 1)
    /\ DeltasFrom(cursor - 1) = "xy"
    /\ TextInBoth("xy")

\* C28: if, after response.created, text deltas d1..dn for an output index
\* arrive before any response.output_item.added for it, the text stored for the
\* placeholder message is d1 + ... + dn in the transcript item and in the
\* snapshot item.
C28_ContentBeforeStructure ==
    \A c \in 1 .. cursor :
        (source[c].type = "response.created" /\ OnlyDeltas(c + 1))
            => TextInBoth(DeltasFrom(c + 1))

\* C30: after constructing a session from a prior snapshot with response id R
\* and N output items, ingesting a lifecycle event (in_progress, completed,
\* failed or incomplete) whose response has id R and the same N outputs leaves
\* the transcript with exactly N Output Messages.
C30_ResumeThenLifecycle ==
    (/\ steps = 1
     /\ seedResponse.object # "undefined"
     /\ lastEvent.type \in ResumeTypes
     /\ lastEvent.response.id = seedResponse.id
     /\ lastEvent.response.output = seedResponse.output)
        => Cardinality(OutputPositions) = OutputCount(seedResponse)

\* the sendMessage calls whose read loop delivers events to the session
ActiveLoops == {c \in CallIds : callPc[c] = "reading" /\ c \notin aborted}

\* C29: for any sequence of sendMessage, sendMcpApprovalResponse and cancel
\* calls interleaved with stream reads, at most one stream-consumption loop
\* delivers events to the session at a time, and the streaming flag is true
\* whenever a loop is active (so that a sendMessage issued then aborts it).
C29_SingleConsumer ==
    /\ Cardinality(ActiveLoops) <= 1
    /\ ActiveLoops # {} => streamingRef

\* the loop has taken a lifecycle event for resp_1 before its event number k,
\* so that resp_1 is the tracked response id when event k is handled
TrackedBefore(k) ==
    \E c \in 1 .. k - 1 : source[c].type \in {"response.created", "response.in_progress"}

\* C31: a response.in_progress event carrying the tracked response id and an
\* empty output list leaves the items of the existing Output Messages
\* unchanged, and a delta that follows it for an existing output index extends
\* the text accumulated before that event.
C31_SameIdLifecycleKeepsContent ==
    [][/\ (/\ cursor' = cursor + 1
           /\ source[cursor'].type = "response.in_progress"
           /\ TrackedBefore(cursor'))
              => \A p \in OutputPositions :
                    \E q \in 1 .. Len(messages') : /\ messages'[q].uid = messages[p].uid
                                                   /\ messages'[q].item = messages[p].item
       /\ (/\ cursor' = cursor + 1
           /\ cursor >= 1
           /\ source[cursor'].type = "response.output_text.delta"
           /\ source[cursor].type = "response.in_progress"
           /\ TrackedBefore(cursor))
              => \A p \in OutputPositions :
                    (/\ messages[p].epoch = epoch
                     /\ messages[p].outputIndex = 0
                     /\ messages[p].item.type = "message"
                     /\ TextOf(messages[p].item, 0) # <<>>)
                        => \E q \in 1 .. Len(messages') :
                              /\ messages'[q].uid = messages[p].uid
                              /\ TextOf(messages'[q].item, 0)
                                    = <<TextOf(messages[p].item, 0)[1] \o source[cursor'].delta>>]_vars

\* event number k of the source repeats an earlier response.output_item.added
\* of the same response: no lifecycle event lies between the two
DuplicateAdded(k) ==
    /\ source[k].type = "response.output_item.added"
    /\ \E a \in 1 .. k - 1 :
          /\ source[a] = source[k]
          /\ \A j \in a .. k : source[j].type \notin LifecycleTypes

\* C32: ingesting again an event already ingested for an item, here a
\* duplicate response.output_item.added at a later point of the same response,
\* creates no additional Output Message and does not discard or duplicate the
\* content accumulated for the item so far, in the transcript and in the
\* snapshot.
C32_IdempotentReapplication ==
    [][(cursor' = cursor + 1 /\ DuplicateAdded(cursor'))
          => /\ Len(messages') = Len(messages)
             /\ \A p \in OutputPositions :
                   (messages[p].epoch = epoch /\ messages[p].outputIndex = 0)
                      => TextOf(messages'[p].item, 0) = TextOf(messages[p].item, 0)
             /\ responseSnapshot.object # "undefined"
                   => TextOf(responseSnapshot'.output[0], 0) = TextOf(responseSnapshot.output[0], 0)]_vars

\* the reasoning item of output index 0, in the transcript and in the snapshot
ReasoningEntries == {p \in OutputPositions : messages[p].item.type = "reasoning"
                                             /\ messages[p].outputIndex = 0 /\ messages[p].epoch = epoch}

ItemAddedBefore ==
    \E p \in ReasoningEntries :
        \E e \in 1 .. Len(messages[p].events) : messages[p].events[e].type = "response.output_item.added"

SummaryTextIs(item, index, text) ==
    /\ item.type = "reasoning"
    /\ index < Len(item.summary)
    /\ "text" \in DOMAIN item.summary[index + 1]
    /\ item.summary[index + 1].text = text

\* C33: after response.reasoning_summary_text.done with text T for summary
\* index s of a reasoning item that the stream has added, summary[s].text of
\* that item is T in the transcript and in the snapshot, with or without an
\* earlier response.reasoning_summary_part.added for s.
C33_SummaryDoneSetsText ==
    (lastEvent.type = "response.reasoning_summary_text.done" /\ ItemAddedBefore
     /\ responseSnapshot.object # "undefined")
        => /\ \A p \in ReasoningEntries :
                 SummaryTextIs(messages[p].item, lastEvent.summary_index, lastEvent.text)
           /\ SummaryTextIs(responseSnapshot.output[0], lastEvent.summary_index, lastEvent.text)

\* the case the code handles: the summary part was added before the done event
C33_DoneAfterPartAdded ==
    /\ lastEvent.type = "response.reasoning_summary_text.done"
    /\ \A p \in ReasoningEntries :
          SummaryTextIs(messages[p].item, lastEvent.summary_index, lastEvent.text)
    /\ ReasoningEntries # {}
    /\ SummaryTextIs(responseSnapshot.output[0], lastEvent.summary_index, lastEvent.text)

SummaryOf(item) == IF item.type = "reasoning" THEN item.summary ELSE <<>>

\* C34: a response.reasoning_text.delta event is recorded in the reasoningText
\* augmentation and the events of the reasoning item's Output Message, and
\* the summary parts of the item are what they were, in the transcript item
\* and in the snapshot item.
C34_ReasoningTextIsAugmentationOnly ==
    [][(steps' = steps + 1 /\ lastEvent'.type = "response.reasoning_text.delta" /\ ItemAddedBefore)
          => /\ \A p \in ReasoningEntries :
                   /\ p <= Len(messages')
                   /\ messages'[p].uid = messages[p].uid
                   /\ messages'[p].augmentations.defined
                   /\ \E e \in 1 .. Len(messages'[p].augmentations.reasoningText) :
                         messages'[p].augmentations.reasoningText[e] = lastEvent'
                   /\ SummaryOf(messages'[p].item) = SummaryOf(messages[p].item)
             /\ responseSnapshot.object # "undefined"
                   => SummaryOf(responseSnapshot'.output[0]) = SummaryOf(responseSnapshot.output[0])]_vars

\* a line whose data is text that is not JSON, and a line that holds an event
MalformedLine(line) == ~line.comment /\ line.data.text \notin {"", "[DONE]", "json"}
EventLine(line) == ~line.comment /\ line.data.text = "json"

\* the event lines among the lines read so far; `steps` counts their
\* handleEvent calls and the one addInput of sendMessage
EventLinesUpTo(k) == {c \in 1 .. k : EventLine(source[c])}

\* an event that carries the fields its handler dereferences
CompleteEvent(event) == event.type \in LifecycleTypes => "response" \in DOMAIN event

OutputsOf(msgs) == SelectSeq(msgs, LAMBDA m : m.kind = "output")

\* C36: aborting an active stream (cancel(), or a sendMessage that aborts it)
\* ingests no error event: neither the abort nor the aborted call's catch
\* block changes the last error, the status, the Output Messages, the snapshot
\* or the ended flag, and `end` is not emitted; a transport failure that is
\* not an abort ingests exactly one error event with code stream_error.
C36_AbortIsNotAnError ==
    [][/\ aborted' # aborted
            => /\ lastEvent' \in {lastEvent, NoEvent}
               /\ lastError' = lastError
               /\ status' = status
               /\ OutputsOf(messages') = OutputsOf(messages)
               /\ responseSnapshot' = responseSnapshot
               /\ ended' = ended
               /\ endCount' = endCount
       /\ \A call \in CallIds :
             (call \in aborted /\ callPc[call] # "done" /\ callPc'[call] = "done")
                => UNCHANGED sessionVars
       /\ \A call \in CallIds :
             (call \notin aborted /\ (FetchFails(call) \/ ReadFails(call)))
                => /\ steps' = steps + 1
                   /\ lastEvent'.type = "error"
                   /\ lastEvent'.code = "stream_error"
                   /\ lastError' = lastEvent']_vars

\* a call was aborted while it was reading, after it had delivered an event,
\* and has run its catch and finally blocks
C36_AbortedAfterEvent ==
    /\ \E call \in aborted : callPc[call] = "done"
    /\ lastEvent.type = "response.output_item.added"
    /\ lastError = NoEvent
    /\ ~ended
    /\ endCount = 0

\* the position before the step of the message that is at position q after it
Before(q) == {p \in 1 .. Len(messages) : messages[p].uid = messages'[q].uid}

\* the message at position q after the step has more events than before it
Grown(q) ==
    /\ messages'[q].kind = "output"
    /\ IF Before(q) = {} THEN Len(messages'[q].events) > 0
       ELSE \E p \in Before(q) : Len(messages'[q].events) > Len(messages[p].events)

\* C37: the events of an Output Message are kept in ingestion order and only
\* grow: a handleEvent call leaves the events of every Output Message as they
\* were or appends its own event at the end, also when it replaces the item,
\* and it appends to at most one Output Message, once.
C37_EventHistory ==
    [][/\ \A p \in OutputPositions : \E q \in 1 .. Len(messages') : p \in Before(q)
       /\ \A q \in 1 .. Len(messages') :
             messages'[q].kind = "output"
                => LET old == IF Before(q) = {} THEN <<>>
                              ELSE messages[CHOOSE p \in Before(q) : TRUE].events
                   IN \/ messages'[q].events = old
                      \/ /\ messages'[q].events = Append(old, lastEvent')
                         /\ steps' = steps + 1
       /\ Cardinality({q \in 1 .. Len(messages') : Grown(q)}) <= 1]_vars

\* a done event replaced the item of a message that had events, and was
\* appended after them
C37_ItemReplacedEventsKept ==
    /\ lastEvent.type = "response.output_item.done"
    /\ \E p \in OutputPositions :
          /\ messages[p].item = lastEvent.item
          /\ Len(messages[p].events) >= 3
          /\ messages[p].events[Len(messages[p].events)] = lastEvent
          /\ \A e \in 1 .. Len(messages[p].events) - 1 :
                messages[p].events[e].sequence_number < messages[p].events[e + 1].sequence_number

\* C38: between two resets of the identity maps the transcript never holds
\* two Output Messages that were created in that period for the same output
\* index, whatever the order and mix of item, text, status and unknown events.
C38_OneMessagePerIndex ==
    \A p, q \in OutputPositions :
        (messages[p].epoch = messages[q].epoch /\ messages[p].outputIndex = messages[q].outputIndex)
            => p = q

\* after a reset: the transcript holds a message of the period before it and
\* two messages of the current period, one of them for the same output index
\* as the old one, the later item inserted in front of the earlier one
C38_IndicesAcrossReset ==
    \E o, p, q \in OutputPositions :
        /\ messages[o].epoch < epoch
        /\ messages[p].epoch = epoch /\ messages[q].epoch = epoch
        /\ messages[p].outputIndex = messages[o].outputIndex
        /\ messages[q].outputIndex > messages[p].outputIndex
        /\ messages[q].uid < messages[p].uid

\* C39: a response.queued event sets the status to queued and leaves the
\* transcript, the response snapshot, both identity maps, the last error and
\* the ended flag as they were.
C39_QueuedSetsStatusOnly ==
    [][(steps' = steps + 1 /\ lastEvent'.type = "response.queued")
          => /\ status' = "queued"
             /\ messages' = messages
             /\ responseSnapshot' = responseSnapshot
             /\ idToIndex' = idToIndex
             /\ outputIndexToMessageIndex' = outputIndexToMessageIndex
             /\ lastError' = lastError
             /\ ended' = ended]_vars

\* response.queued arrived in a session that holds a snapshot of another
\* status and an Output Message with text
C39_QueuedOverSnapshot ==
    /\ lastEvent.type = "response.queued"
    /\ status = "queued"
    /\ responseSnapshot.object # "undefined"
    /\ responseSnapshot.status # "queued"
    /\ \E p \in OutputPositions : TextOf(messages[p].item, 0) # <<>>

ApprovalResponses(msgs) ==
    {i \in 1 .. Len(msgs) : msgs[i].kind = "input" /\ msgs[i].item.type = "mcp_approval_response"}

\* a call that has been started, was not aborted and has not finished
StreamActive == \E c \in CallIds : callPc[c] \in {"fetching", "reading"} /\ c \notin aborted

\* C40: sendMcpApprovalResponse appends the approval response, and it starts
\* a follow-up request exactly when, with that response in the transcript,
\* every mcp_approval_request Output Message has an approval response with
\* its id, at least one approval response exists and no stream is active.
C40_ApprovalAutoSend ==
    [][Cardinality(ApprovalResponses(messages')) = Cardinality(ApprovalResponses(messages)) + 1
          => ((\E c \in CallIds : callPc[c] = "idle" /\ callPc'[c] = "fetching")
                <=> /\ remainingPendingIds(messages') = {}
                    /\ ApprovalResponses(messages') # {}
                    /\ ~StreamActive)]_vars

\* the same with the flag in place of the streams: what the code decides on
C40_AutoSendFollowsFlag ==
    [][Cardinality(ApprovalResponses(messages')) = Cardinality(ApprovalResponses(messages)) + 1
          => ((\E c \in CallIds : callPc[c] = "idle" /\ callPc'[c] = "fetching")
                <=> /\ remainingPendingIds(messages') = {}
                    /\ ApprovalResponses(messages') # {}
                    /\ ~streamingRef)]_vars

====
